---- MODULE Spec2Model ----
(***************************************************************************)
(* Model of the share-of-voice audit pipeline: the SERP orchestrator       *)
(* (lib/serp-runner.ts: runSerpChecksForProfile, runSerpForPrompt,         *)
(* asyncPool) writing per-prompt per-engine results into the realtime      *)
(* database, and the overall-report route (report/overall) with its        *)
(* narrative step and fallback.                                            *)
(*                                                                         *)
(* Every await of the source is a scheduling point.  A database write      *)
(* takes effect when it is called; the continuation that runs when it is   *)
(* acknowledged is merged with the next call the code makes.               *)
(***************************************************************************)
EXTENDS Integers, Sequences, FiniteSets, TLC

\* ---------------------------------------------------------------- bounds
MaxPrompts == 2
PoolPrompts == 5
MaxReportPrompts == 2
MaxTextLen == 4
MaxRacePrompts == 2
MaxScorePrompts == 1
MaxBootPrompts == 2
MaxKeyPrompts == 2
MaxGenCount == 2
MaxRankPrompts == 11
MaxHostLen == 3
MaxDataPrompts == 1

\* ------------------------------------------------------ program constants
POOL_LIMIT == 4
PROGRESS_START == 72
PROGRESS_SPAN == 25
PROGRESS_CAP == 97
PROGRESS_DONE == 100

Endpoints == {"bootstrap", "add", "add2", "generate_more", "prompt_report"}
AddRequests == {"add", "add2"}
ReportRequests == {"repA", "repB"}
Requests == {"reqA", "reqB"}
BatchRequests == {"reqA"}
SingleRequests == {"reqB"}
PoolRequests == {"reqA"}
Engines == {"google", "bing"}
Terminal == {"done", "error"}

CatOrder == <<"brainstorming", "identified_problem", "solution_comparing", "info_seeking">>

VARIABLES
  profile,    \* profiles/{id}: status and progress fields
  prompts,    \* profiles/{id}/prompts: set of prompt ids [cat, key]
  results,    \* profiles/{id}/results: prompt id -> engine -> engine result
  rkind,      \* per request: "none" | "batch" | "single"
  rpc,        \* per request: position in the handler
  snap,       \* per request: the prompts array read at the start
  midx,       \* per request: index of the mark-as-checking loop
  wpc,        \* per request: position of each prompt worker
  pnext,      \* per request: asyncPool loop index i
  pexec,      \* per request: asyncPool executing array
  doneCnt,    \* per request: the done counter of the batch
  wlog,       \* per request: the values this run wrote per (prompt, engine)
  report,     \* profiles/{id}/reports/overall
  repPc,      \* per report request: position in the handler
  repPrompts, \* per report request: the prompts array
  repComputed, \* per report request: the computed array
  repBuilt,   \* per report request: the report object it assembled
  repHttp,    \* per report request: HTTP status of the response, 0 = none yet
  llmResp,    \* per report request: what the text-generation collaborator answered
  epPc,       \* per other endpoint: position in the handler
  epHttp,     \* per other endpoint: HTTP status of the response, 0 = none yet
  epErr,      \* per other endpoint: the message of the error its catch block caught
  bootResult, \* bootstrap: the prompts generatePromptsForProfile is persisting
  bootIdx,    \* bootstrap: index of the persist loop
  epLoc,      \* add and generate-more: category, next index, profile seen, prompts left
  site,       \* profiles/{id}: the company's domain and the competitors' domains
  web         \* per request: the links and brands the search provider's answers carry

serpVars == <<rkind, rpc, snap, midx, wpc, pnext, pexec, doneCnt, wlog>>

repVars == <<report, repPc, repPrompts, repComputed, repBuilt, repHttp, llmResp>>

epVars == <<epPc, epHttp, epErr, bootResult, bootIdx, epLoc>>

envVars == <<site, web>>

vars == <<profile, prompts, results, rkind, rpc, snap, midx, wpc, pnext, pexec, doneCnt, wlog,
          report, repPc, repPrompts, repComputed, repBuilt, repHttp, llmResp, epPc, epHttp,
          epErr, bootResult, bootIdx, epLoc, site, web>>

\* ------------------------------------------------------------ prompt ids
CatIndex(c) == CHOOSE k \in 1..4 : CatOrder[k] = c

PromptAt(j) == [cat |-> CatOrder[((j - 1) % 4) + 1], key |-> (j - 1) \div 4]

PromptUniverse(n) == {PromptAt(j) : j \in 1..n}

PromptRank(p) == CatIndex(p.cat) * 100 + p.key

RECURSIVE FlattenPrompts(_)
FlattenPrompts(S) ==
  IF S = {} THEN <<>>
  ELSE LET m == CHOOSE x \in S : \A y \in S : PromptRank(x) <= PromptRank(y)
       IN <<m>> \o FlattenPrompts(S \ {m})

\* ------------------------------------------------------------ host names
\* A host name or a brand is a sequence of characters.
Chars == {"a", "b", "."}

Dot == "."

Strings(n) == UNION {[1..k -> Chars] : k \in 1..n}

\* what new URL(u).hostname can be: labels separated by single dots
IsHostName(h) ==
  /\ h[1] # Dot /\ h[Len(h)] # Dot
  /\ \A k \in 1..(Len(h) - 1) : ~(h[k] = Dot /\ h[k + 1] = Dot)

HostNames(n) == {h \in Strings(n) : IsHostName(h)}

\* a result link: ok is whether new URL() accepts it, host is its hostname,
\* lowercased and without a leading "www."
Link(h) == [ok |-> TRUE, host |-> h]

BadLink == [ok |-> FALSE, host |-> <<>>]

\* null
NoHost == <<>>

HostFromResultUrl(l) == IF l.ok THEN l.host ELSE NoHost

\* links.map(hostFromResultUrl).filter(Boolean)
HostsOfLinks(links) ==
  LET IsHost(h) == h # NoHost
  IN SelectSeq([k \in 1..Len(links) |-> HostFromResultUrl(links[k])], IsHost)

EndsWith(s, t) == Len(t) <= Len(s) /\ SubSeq(s, Len(s) - Len(t) + 1, Len(s)) = t

\* String.prototype.includes
Includes(s, t) == \E k \in 0..(Len(s) - Len(t)) : SubSeq(s, k + 1, k + Len(t)) = t

\* variant: any host that ends with the domain matches
MatchesDomainNoDot(host, domain) ==
  /\ host # <<>> /\ domain # <<>>
  /\ (host = domain \/ EndsWith(host, domain))

MatchesDomain(host, domain) ==
  /\ host # <<>> /\ domain # <<>>
  /\ (host = domain \/ EndsWith(host, <<Dot>> \o domain))

\* variant: the hits of the two engines are concatenated, not merged
DedupeNot(s) == s

\* Array.from(new Set([...gHits, ...bHits]))
RECURSIVE Dedupe(_)
Dedupe(s) ==
  IF s = <<>> THEN <<>>
  ELSE LET front == Dedupe(SubSeq(s, 1, Len(s) - 1))
           x == s[Len(s)]
       IN IF \E k \in 1..Len(front) : front[k] = x THEN front ELSE Append(front, x)

\* hosts.some((h) => matchesDomain(h, domain))
SomeHostMatches(hosts, domain) == \E k \in 1..Len(hosts) : MatchesDomain(hosts[k], domain)

AnalyzePresence(hosts, companyDomain, competitorDomains) ==
  LET Hit(cd) == SomeHostMatches(hosts, cd)
  IN [hasCompany |-> SomeHostMatches(hosts, companyDomain),
      competitorsHit |-> Dedupe(SelectSeq(competitorDomains, Hit))]

AnalyzeTop10(top10, companyDomain, competitorDomains) ==
  LET hosts == HostsOfLinks(top10)
      Hit(cd) == SomeHostMatches(hosts, cd)
  IN [hasCompany |-> SomeHostMatches(hosts, companyDomain),
      competitorsHit |-> Dedupe(SelectSeq(competitorDomains, Hit))]

\* the Set of seller hosts, in insertion order
ExtractShoppingSellerHosts(links) == Dedupe(HostsOfLinks(links))

\* punctuation and white space are removed from the brand
NormalizeBrand(b) ==
  LET Kept(c) == c # Dot
  IN SelectSeq(b, Kept)

BrandMatchesDomain(brand, domain) ==
  /\ brand # <<>> /\ domain # <<>>
  /\ Len(NormalizeBrand(brand)) > 1
  /\ Includes(domain, NormalizeBrand(brand))

AnalyzeImmersiveByBrand(brands, companyDomain, competitorDomains) ==
  LET Has(d) == \E k \in 1..Len(brands) : BrandMatchesDomain(brands[k], d)
  IN [hasCompany |-> Has(companyDomain),
      competitorsHit |-> Dedupe(SelectSeq(competitorDomains, Has))]

\* ------------------------------------------------------- result objects
Absent == [status |-> "absent"]

CheckingValue == [status |-> "checking"]

GoogleFailMsg == "SerpAPI google failed"
BingFailMsg == "SerpAPI bing failed"
FetchFailMsg == "fetch failed"

DoneValue == [status |-> "done"]

\* variant: the catch block stores the status without the message
ErrorValueNoMsg(msg) == [status |-> "error", error |-> ""]

ErrorValue(msg) == [status |-> "error", error |-> msg]

EngineResult(res, pid, e) == IF pid \in DOMAIN res THEN res[pid][e] ELSE Absent

\* variant: the write goes to engine e of every stored prompt
SetEngineEveryPrompt(res, pid, e, v) ==
  [q \in (DOMAIN res) \cup {pid} |->
     [x \in Engines |-> IF x = e THEN v ELSE EngineResult(res, q, x)]]

SetEngine(res, pid, e, v) ==
  [q \in (DOMAIN res) \cup {pid} |->
     IF q = pid
     THEN [x \in Engines |-> IF x = e THEN v ELSE EngineResult(res, pid, x)]
     ELSE res[q]]

\* variant: only the google child is marked
MarkCheckingGoogleOnly(res, pid) ==
  [q \in (DOMAIN res) \cup {pid} |->
     IF q = pid
     THEN [x \in Engines |-> IF x = "google" THEN CheckingValue ELSE EngineResult(res, pid, x)]
     ELSE res[q]]

MarkChecking(res, pid) ==
  [q \in (DOMAIN res) \cup {pid} |->
     IF q = pid THEN [x \in Engines |-> CheckingValue] ELSE res[q]]

\* variant: the catch block sets the whole results/{promptId} node
GoogleErrorWriteWholeNode(res, pid, msg) ==
  [q \in (DOMAIN res) \cup {pid} |->
     IF q = pid
     THEN [x \in Engines |-> IF x = "google" THEN ErrorValue(msg) ELSE Absent]
     ELSE res[q]]

GoogleErrorWrite(res, pid, msg) == SetEngine(res, pid, "google", ErrorValue(msg))

\* variant: the catch block updates the bing child instead of setting it
BingErrorWriteMerge(res, pid, msg) ==
  LET old == EngineResult(res, pid, "bing")
      new == ErrorValue(msg)
  IN SetEngine(res, pid, "bing",
               [k \in DOMAIN old \cup DOMAIN new |-> IF k \in DOMAIN new THEN new[k] ELSE old[k]])

BingErrorWrite(res, pid, msg) == SetEngine(res, pid, "bing", ErrorValue(msg))

\* the object the google branch sets when nothing threw; followed is
\* whether an immersive follow-up call was answered with a product
GoogleDoneValue(w, st, followed) ==
  LET organic == AnalyzeTop10(w.organic, st.company, st.competitors)
      shoppingHosts == ExtractShoppingSellerHosts(w.shopping)
      shopping == AnalyzePresence(shoppingHosts, st.company, st.competitors)
      immersiveHosts == IF followed THEN Dedupe(HostsOfLinks(w.stores)) ELSE <<>>
      immersiveBrands == IF followed THEN Dedupe(w.brands) ELSE <<>>
      immersive == AnalyzeImmersiveByBrand(immersiveBrands, st.company, st.competitors)
  IN [status |-> "done",
      top10 |-> w.organic,
      hasCompany |-> organic.hasCompany,
      competitorsHit |-> organic.competitorsHit,
      shopping |-> [sellers |-> shoppingHosts,
                    hasCompany |-> shopping.hasCompany,
                    competitorsHit |-> shopping.competitorsHit],
      immersive |-> [sellers |-> immersiveHosts,
                     brands |-> immersiveBrands,
                     hasCompany |-> immersive.hasCompany,
                     competitorsHit |-> immersive.competitorsHit]]

BingDoneValue(w, st) ==
  LET b == AnalyzeTop10(w.bing, st.company, st.competitors)
  IN [status |-> "done", top10 |-> w.bing, hasCompany |-> b.hasCompany,
      competitorsHit |-> b.competitorsHit]

\* the database keeps no empty array: a child set to [] does not exist
ArrayFields == {"top10", "competitorsHit", "sellers", "brands"}

DbObject(o) ==
  [k \in {f \in DOMAIN o : ~(f \in ArrayFields /\ o[f] = <<>>)} |-> o[k]]

DbValue(v) ==
  LET kept == DbObject(v)
  IN [k \in DOMAIN kept |->
        IF k \in {"shopping", "immersive"} THEN DbObject(kept[k]) ELSE kept[k]]

GoogleDoneWrite(res, pid, v) == SetEngine(res, pid, "google", DbValue(v))

BingDoneWrite(res, pid, v) == SetEngine(res, pid, "bing", DbValue(v))

\* the value a write left at (pid, e), appended to the run's log
Logged(lg, i, e, v) == [lg EXCEPT ![i][e] = Append(@, v)]

LogStored(lg, i, res, pid) == [lg EXCEPT ![i] = [e \in Engines |-> Append(@[e], EngineResult(res, pid, e))]]

\* ---------------------------------------------------------------- pool
\* variant: the loop waits only when more than limit workers are executing
RECURSIVE PoolLoopOffByOne(_, _, _)
PoolLoopOffByOne(i, ex, n) ==
  IF i > n THEN [next |-> i, exec |-> ex]
  ELSE IF POOL_LIMIT <= n
       THEN LET ex2 == ex \cup {i}
            IN IF Cardinality(ex2) > POOL_LIMIT
               THEN [next |-> i + 1, exec |-> ex2]
               ELSE PoolLoopOffByOne(i + 1, ex2, n)
       ELSE PoolLoopOffByOne(i + 1, ex, n)

RECURSIVE PoolLoop(_, _, _)
PoolLoop(i, ex, n) ==
  IF i > n THEN [next |-> i, exec |-> ex]
  ELSE IF POOL_LIMIT <= n
       THEN LET ex2 == ex \cup {i}
            IN IF Cardinality(ex2) >= POOL_LIMIT
               THEN [next |-> i + 1, exec |-> ex2]
               ELSE PoolLoop(i + 1, ex2, n)
       ELSE PoolLoop(i + 1, ex, n)

\* variant: asyncPool returns when its loop ends, without Promise.all(ret)
PoolSettledLoopOnly(r) == pnext[r] > Len(snap[r])

PoolSettled(r) ==
  /\ pnext[r] > Len(snap[r])
  /\ \A i \in 1..Len(snap[r]) : wpc[r][i] = "fin"

\* variant: the checking writes are not awaited before the pool starts
MarkDoneNotAwaited(r) == midx[r] >= 1

MarkDone(r) == midx[r] > Len(snap[r])

\* variant: the fraction is truncated, not rounded
ProgressPctFloor(done, n) ==
  LET total == IF n > 1 THEN n ELSE 1
      pct == PROGRESS_START + ((PROGRESS_SPAN * done) \div total)
  IN IF pct < PROGRESS_CAP THEN pct ELSE PROGRESS_CAP

ProgressPct(done, n) ==
  LET total == IF n > 1 THEN n ELSE 1
      pct == PROGRESS_START + ((2 * PROGRESS_SPAN * done + total) \div (2 * total))
  IN IF pct < PROGRESS_CAP THEN pct ELSE PROGRESS_CAP

\* workers the pool loop starts when it advances from index a to index b
\* variant: the worker issues the bing lookup first
FirstLookupBing == "b"

FirstLookup == "g"

Started(w, a, b) == [i \in DOMAIN w |-> IF i >= a /\ i < b THEN FirstLookup ELSE w[i]]

\* ---------------------------------------------------------------- Init
NoLocals == [cat |-> "", next |-> 0, seen |-> FALSE, left |-> 0]

\* a company found by google, one competitor found by bing
DefaultSite == [company |-> <<"a">>, competitors |-> << <<"b">> >>]

DefaultWeb ==
  [organic |-> <<Link(<<"a">>)>>, shopping |-> <<>>, brands |-> <<>>, stores |-> <<>>,
   bing |-> <<Link(<<"b">>)>>]

InitRunLocals ==
  /\ rkind = [r \in Requests |-> "none"]
  /\ rpc = [r \in Requests |-> "idle"]
  /\ snap = [r \in Requests |-> <<>>]
  /\ midx = [r \in Requests |-> 0]
  /\ wpc = [r \in Requests |-> <<>>]
  /\ pnext = [r \in Requests |-> 0]
  /\ pexec = [r \in Requests |-> {}]
  /\ doneCnt = [r \in Requests |-> 0]
  /\ wlog = [r \in Requests |-> <<>>]
  /\ epPc = [ep \in Endpoints |-> "idle"]
  /\ epHttp = [ep \in Endpoints |-> 0]
  /\ epErr = [ep \in Endpoints |-> ""]
  /\ bootResult = <<>>
  /\ bootIdx = 0
  /\ epLoc = [ep \in Endpoints |-> NoLocals]

InitLocals ==
  /\ InitRunLocals
  /\ site = DefaultSite
  /\ web = [r \in Requests |-> DefaultWeb]

\* the store after an earlier batch run over ps has completed
CompletedResults(ps, w, st) ==
  [p \in ps |-> [e \in Engines |-> IF e = "google" THEN DbValue(GoogleDoneValue(w, st, FALSE))
                                  ELSE DbValue(BingDoneValue(w, st))]]

InitStore(n) ==
  \E k \in 0..n :
    /\ prompts = PromptUniverse(k)
    /\ \/ /\ profile = [status |-> "prompts", progress |-> 70]
          /\ results = <<>>
       \/ /\ k > 0
          /\ profile = [status |-> "done", progress |-> PROGRESS_DONE]
          /\ results = CompletedResults(prompts, DefaultWeb, DefaultSite)

NoReport == [exists |-> FALSE]

NoResponse == [kind |-> "none"]

InitReportLocals ==
  /\ repPc = [q \in ReportRequests |-> "idle"]
  /\ repPrompts = [q \in ReportRequests |-> <<>>]
  /\ repComputed = [q \in ReportRequests |-> <<>>]
  /\ repBuilt = [q \in ReportRequests |-> NoReport]
  /\ repHttp = [q \in ReportRequests |-> 0]
  /\ llmResp = [q \in ReportRequests |-> NoResponse]

InitReportIdle == report = NoReport /\ InitReportLocals

Init == InitStore(MaxPrompts) /\ InitLocals /\ InitReportIdle

InitPool == InitStore(PoolPrompts) /\ InitLocals /\ InitReportIdle

\* ------------------------------------------------------------- profile
\* profiles/{id} holds nothing
MissingProfile == [status |-> "missing"]

ProfileExists(p) == p.status # "missing"

\* update(profileRef, f): the named children are replaced, the others kept
UpdateFields(p, f) ==
  [k \in (IF ProfileExists(p) THEN DOMAIN p ELSE {}) \cup DOMAIN f |->
     IF k \in DOMAIN f THEN f[k] ELSE p[k]]

\* the next key of a category: one more than the largest key in use, 0 when
\* the category is empty
NextKey(ps, cat) ==
  LET used == {p.key : p \in {x \in ps : x.cat = cat}}
  IN IF used = {} THEN 0 ELSE (CHOOSE k \in used : \A j \in used : j <= k) + 1

\* ------------------------------------------------------------- batch run
BatchStart(r) ==
  /\ rpc[r] = "idle"
  /\ rkind' = [rkind EXCEPT ![r] = "batch"]
  /\ rpc' = [rpc EXCEPT ![r] = "read"]
  /\ UNCHANGED <<profile, prompts, results, snap, midx, wpc, pnext, pexec, doneCnt, wlog>>
  /\ UNCHANGED repVars
  /\ UNCHANGED epVars
  /\ UNCHANGED envVars

\* get(profileRef) found nothing: runSerpChecksForProfile throws
BatchProfileMissing(r) ==
  /\ rkind[r] = "batch" /\ rpc[r] = "read"
  /\ ~ProfileExists(profile)
  /\ rpc' = [rpc EXCEPT ![r] = "failed"]
  /\ UNCHANGED <<profile, prompts, results, rkind, snap, midx, wpc, pnext, pexec, doneCnt, wlog>>
  /\ UNCHANGED repVars
  /\ UNCHANGED epVars
  /\ UNCHANGED envVars

BatchReadPrompts(r) ==
  /\ rkind[r] = "batch" /\ rpc[r] = "read"
  /\ ProfileExists(profile)
  /\ LET s == FlattenPrompts(prompts)
     IN /\ snap' = [snap EXCEPT ![r] = s]
        /\ wpc' = [wpc EXCEPT ![r] = [i \in 1..Len(s) |-> "idle"]]
        /\ wlog' = [wlog EXCEPT ![r] = [i \in 1..Len(s) |-> [e \in Engines |-> <<>>]]]
  /\ profile' = UpdateFields(profile, [status |-> "serp_check", progress |-> PROGRESS_START])
  /\ midx' = [midx EXCEPT ![r] = 1]
  /\ rpc' = [rpc EXCEPT ![r] = "mark"]
  /\ UNCHANGED <<prompts, results, rkind, pnext, pexec, doneCnt>>
  /\ UNCHANGED repVars
  /\ UNCHANGED epVars
  /\ UNCHANGED envVars

BatchMark(r) ==
  /\ rkind[r] = "batch" /\ rpc[r] = "mark"
  /\ midx[r] <= Len(snap[r])
  /\ results' = MarkChecking(results, snap[r][midx[r]])
  /\ wlog' = [wlog EXCEPT ![r] = LogStored(@, midx[r], results', snap[r][midx[r]])]
  /\ midx' = [midx EXCEPT ![r] = @ + 1]
  /\ UNCHANGED <<profile, prompts, rkind, rpc, snap, wpc, pnext, pexec, doneCnt>>
  /\ UNCHANGED repVars
  /\ UNCHANGED epVars
  /\ UNCHANGED envVars

BatchPoolStart(r) ==
  /\ rkind[r] = "batch" /\ rpc[r] = "mark"
  /\ MarkDone(r)
  /\ LET st == PoolLoop(1, {}, Len(snap[r]))
     IN /\ wpc' = [wpc EXCEPT ![r] = Started(@, 1, st.next)]
        /\ pnext' = [pnext EXCEPT ![r] = st.next]
        /\ pexec' = [pexec EXCEPT ![r] = st.exec]
  /\ rpc' = [rpc EXCEPT ![r] = "pool"]
  /\ UNCHANGED <<profile, prompts, results, rkind, snap, midx, doneCnt, wlog>>
  /\ UNCHANGED repVars
  /\ UNCHANGED epVars
  /\ UNCHANGED envVars

BatchGoogleRespond(r, i, out) ==
  /\ rkind[r] = "batch" /\ rpc[r] = "pool"
  /\ i \in DOMAIN wpc[r] /\ wpc[r][i] = "g"
  /\ \/ /\ out = "fail"
        /\ results' = GoogleErrorWrite(results, snap[r][i], GoogleFailMsg)
        /\ wlog' = [wlog EXCEPT ![r] = Logged(@, i, "google", EngineResult(results', snap[r][i], "google"))]
        /\ wpc' = [wpc EXCEPT ![r][i] = "b"]
     \/ /\ out = "ok"
        /\ results' = GoogleDoneWrite(results, snap[r][i], GoogleDoneValue(web[r], site, FALSE))
        /\ wlog' = [wlog EXCEPT ![r] = Logged(@, i, "google", EngineResult(results', snap[r][i], "google"))]
        /\ wpc' = [wpc EXCEPT ![r][i] = "b"]
     \/ /\ out = "ok_immersive"
        /\ wpc' = [wpc EXCEPT ![r][i] = "gi"]
        /\ UNCHANGED <<results, wlog>>
  /\ UNCHANGED <<profile, prompts, rkind, rpc, snap, midx, pnext, pexec, doneCnt>>
  /\ UNCHANGED repVars
  /\ UNCHANGED epVars
  /\ UNCHANGED envVars

BatchImmersiveRespond(r, i, out) ==
  /\ rkind[r] = "batch" /\ rpc[r] = "pool"
  /\ i \in DOMAIN wpc[r] /\ wpc[r][i] = "gi"
  /\ \/ /\ out = "reject"
        /\ results' = GoogleErrorWrite(results, snap[r][i], FetchFailMsg)
     \/ /\ out \in {"ok", "nonok"}
        /\ results' = GoogleDoneWrite(results, snap[r][i], GoogleDoneValue(web[r], site, out = "ok"))
  /\ wlog' = [wlog EXCEPT ![r] = Logged(@, i, "google", EngineResult(results', snap[r][i], "google"))]
  /\ wpc' = [wpc EXCEPT ![r][i] = "b"]
  /\ UNCHANGED <<profile, prompts, rkind, rpc, snap, midx, pnext, pexec, doneCnt>>
  /\ UNCHANGED repVars
  /\ UNCHANGED epVars
  /\ UNCHANGED envVars

BatchBingRespond(r, i, out) ==
  /\ rkind[r] = "batch" /\ rpc[r] = "pool"
  /\ i \in DOMAIN wpc[r] /\ wpc[r][i] = "b"
  /\ \/ /\ out = "fail"
        /\ results' = BingErrorWrite(results, snap[r][i], BingFailMsg)
     \/ /\ out = "ok"
        /\ results' = BingDoneWrite(results, snap[r][i], BingDoneValue(web[r], site))
  /\ wlog' = [wlog EXCEPT ![r] = Logged(@, i, "bing", EngineResult(results', snap[r][i], "bing"))]
  /\ doneCnt' = [doneCnt EXCEPT ![r] = @ + 1]
  /\ profile' = UpdateFields(profile, [progress |-> ProgressPct(doneCnt'[r], Len(snap[r]))])
  /\ LET st == PoolLoop(pnext[r], pexec[r] \ {i}, Len(snap[r]))
     IN /\ wpc' = [wpc EXCEPT ![r] = Started([@ EXCEPT ![i] = "fin"], pnext[r], st.next)]
        /\ pnext' = [pnext EXCEPT ![r] = st.next]
        /\ pexec' = [pexec EXCEPT ![r] = st.exec]
  /\ UNCHANGED <<prompts, rkind, rpc, snap, midx>>
  /\ UNCHANGED repVars
  /\ UNCHANGED epVars
  /\ UNCHANGED envVars

BatchFinal(r) ==
  /\ rkind[r] = "batch" /\ rpc[r] = "pool"
  /\ PoolSettled(r)
  /\ profile' = UpdateFields(profile, [status |-> "done", progress |-> PROGRESS_DONE])
  /\ rpc' = [rpc EXCEPT ![r] = "done"]
  /\ UNCHANGED <<prompts, results, rkind, snap, midx, wpc, pnext, pexec, doneCnt, wlog>>
  /\ UNCHANGED repVars
  /\ UNCHANGED epVars
  /\ UNCHANGED envVars

\* ------------------------------------------------------ single-prompt run
SingleStart(r, pid) ==
  /\ rpc[r] = "idle"
  /\ rkind' = [rkind EXCEPT ![r] = "single"]
  /\ rpc' = [rpc EXCEPT ![r] = "read"]
  /\ snap' = [snap EXCEPT ![r] = <<pid>>]
  /\ UNCHANGED <<profile, prompts, results, midx, wpc, pnext, pexec, doneCnt, wlog>>
  /\ UNCHANGED repVars
  /\ UNCHANGED epVars
  /\ UNCHANGED envVars

SingleReadPrompt(r) ==
  /\ rkind[r] = "single" /\ rpc[r] = "read"
  /\ \/ /\ snap[r][1] \notin prompts
        /\ rpc' = [rpc EXCEPT ![r] = "failed"]
        /\ UNCHANGED <<results, wpc, wlog>>
     \/ /\ snap[r][1] \in prompts
        /\ results' = MarkChecking(results, snap[r][1])
        /\ wlog' = [wlog EXCEPT ![r] = LogStored(<<[e \in Engines |-> <<>>]>>, 1, results', snap[r][1])]
        /\ wpc' = [wpc EXCEPT ![r] = <<"idle">>]
        /\ rpc' = [rpc EXCEPT ![r] = "marked"]
  /\ UNCHANGED <<profile, prompts, rkind, snap, midx, pnext, pexec, doneCnt>>
  /\ UNCHANGED repVars
  /\ UNCHANGED epVars
  /\ UNCHANGED envVars

SingleLookupStart(r) ==
  /\ rkind[r] = "single" /\ rpc[r] = "marked"
  /\ wpc' = [wpc EXCEPT ![r] = <<FirstLookup>>]
  /\ rpc' = [rpc EXCEPT ![r] = "lookup"]
  /\ UNCHANGED <<profile, prompts, results, rkind, snap, midx, pnext, pexec, doneCnt, wlog>>
  /\ UNCHANGED repVars
  /\ UNCHANGED epVars
  /\ UNCHANGED envVars

SingleGoogleRespond(r, out) ==
  /\ rkind[r] = "single" /\ rpc[r] = "lookup"
  /\ wpc[r][1] = "g"
  /\ \/ /\ out = "fail"
        /\ results' = GoogleErrorWrite(results, snap[r][1], GoogleFailMsg)
        /\ wlog' = [wlog EXCEPT ![r] = Logged(@, 1, "google", EngineResult(results', snap[r][1], "google"))]
        /\ wpc' = [wpc EXCEPT ![r][1] = "b"]
     \/ /\ out = "ok"
        /\ results' = GoogleDoneWrite(results, snap[r][1], GoogleDoneValue(web[r], site, FALSE))
        /\ wlog' = [wlog EXCEPT ![r] = Logged(@, 1, "google", EngineResult(results', snap[r][1], "google"))]
        /\ wpc' = [wpc EXCEPT ![r][1] = "b"]
     \/ /\ out = "ok_immersive"
        /\ wpc' = [wpc EXCEPT ![r][1] = "gi"]
        /\ UNCHANGED <<results, wlog>>
  /\ UNCHANGED <<profile, prompts, rkind, rpc, snap, midx, pnext, pexec, doneCnt>>
  /\ UNCHANGED repVars
  /\ UNCHANGED epVars
  /\ UNCHANGED envVars

SingleImmersiveRespond(r, out) ==
  /\ rkind[r] = "single" /\ rpc[r] = "lookup"
  /\ wpc[r][1] = "gi"
  /\ \/ /\ out = "reject"
        /\ results' = GoogleErrorWrite(results, snap[r][1], FetchFailMsg)
     \/ /\ out \in {"ok", "nonok"}
        /\ results' = GoogleDoneWrite(results, snap[r][1], GoogleDoneValue(web[r], site, out = "ok"))
  /\ wlog' = [wlog EXCEPT ![r] = Logged(@, 1, "google", EngineResult(results', snap[r][1], "google"))]
  /\ wpc' = [wpc EXCEPT ![r][1] = "b"]
  /\ UNCHANGED <<profile, prompts, rkind, rpc, snap, midx, pnext, pexec, doneCnt>>
  /\ UNCHANGED repVars
  /\ UNCHANGED epVars
  /\ UNCHANGED envVars

SingleBingRespond(r, out) ==
  /\ rkind[r] = "single" /\ rpc[r] = "lookup"
  /\ wpc[r][1] = "b"
  /\ \/ /\ out = "fail"
        /\ results' = BingErrorWrite(results, snap[r][1], BingFailMsg)
     \/ /\ out = "ok"
        /\ results' = BingDoneWrite(results, snap[r][1], BingDoneValue(web[r], site))
  /\ wlog' = [wlog EXCEPT ![r] = Logged(@, 1, "bing", EngineResult(results', snap[r][1], "bing"))]
  /\ wpc' = [wpc EXCEPT ![r][1] = "fin"]
  /\ rpc' = [rpc EXCEPT ![r] = "done"]
  /\ UNCHANGED <<profile, prompts, rkind, snap, midx, pnext, pexec, doneCnt>>
  /\ UNCHANGED repVars
  /\ UNCHANGED epVars
  /\ UNCHANGED envVars

\* ---------------------------------------------------------------- Next
GoogleOutcomes == {"ok", "ok_immersive", "fail"}
ImmersiveOutcomes == {"ok", "nonok", "reject"}
BingOutcomes == {"ok", "fail"}

BatchStep(r) ==
  \/ BatchStart(r)
  \/ BatchReadPrompts(r)
  \/ BatchMark(r)
  \/ BatchPoolStart(r)
  \/ BatchFinal(r)

BatchNet(r) ==
  \/ \E i \in 1..Len(snap[r]), out \in GoogleOutcomes : BatchGoogleRespond(r, i, out)
  \/ \E i \in 1..Len(snap[r]), out \in ImmersiveOutcomes : BatchImmersiveRespond(r, i, out)
  \/ \E i \in 1..Len(snap[r]), out \in BingOutcomes : BatchBingRespond(r, i, out)

SingleStep(r) ==
  \/ \E pid \in PromptUniverse(MaxPrompts) : SingleStart(r, pid)
  \/ SingleReadPrompt(r)
  \/ SingleLookupStart(r)

SingleNet(r) ==
  \/ \E out \in GoogleOutcomes : SingleGoogleRespond(r, out)
  \/ \E out \in ImmersiveOutcomes : SingleImmersiveRespond(r, out)
  \/ \E out \in BingOutcomes : SingleBingRespond(r, out)

Next ==
  \/ \E r \in BatchRequests : BatchStep(r) \/ BatchNet(r)
  \/ \E r \in SingleRequests : SingleStep(r) \/ SingleNet(r)

Spec == Init /\ [][Next]_vars

NextPool == \E r \in PoolRequests : BatchStep(r) \/ BatchNet(r)

PoolSpec == InitPool /\ [][NextPool]_vars

\* ------------------------------------------- presence analysis of a lookup
\* the domains a profile is created with
FewDomains == {<<"a">>, <<"b">>, <<"a", ".", "b">>}

AnalyzeSites ==
  {[company |-> c, competitors |-> cs] :
     c \in {<<"a">>, <<"a", "b">>, <<"a", ".", "b">>},
     cs \in {<<d>> : d \in FewDomains} \cup {<<d, e>> : d \in FewDomains, e \in FewDomains}}

\* the organic results: nothing, one link, or one link followed by a link
\* that does not parse, by b or by a.b
FirstLinks == {Link(h) : h \in HostNames(MaxHostLen)} \cup {BadLink}

SecondLinks == {BadLink, Link(<<"b">>), Link(<<"a", ".", "b">>)}

OrganicLists ==
  {<<>>} \cup {<<l>> : l \in FirstLinks} \cup {<<l, m>> : l \in FirstLinks, m \in SecondLinks}

ShoppingLists ==
  {<<>>, <<Link(<<"b", ".", "a">>)>>, <<Link(<<"b", "a">>), BadLink, Link(<<"b", "a">>)>>}

AnalyzeWebs ==
  {[organic |-> o, shopping |-> sh, brands |-> <<>>, stores |-> <<>>, bing |-> o] :
     o \in OrganicLists, sh \in ShoppingLists}

InitAnalyze ==
  /\ prompts = PromptUniverse(1)
  /\ profile = [status |-> "done", progress |-> PROGRESS_DONE]
  /\ results = <<>>
  /\ InitRunLocals
  /\ InitReportIdle
  /\ site \in AnalyzeSites
  /\ \E w \in AnalyzeWebs : web = [r \in Requests |-> w]

NextAnalyze == \E r \in SingleRequests : SingleStep(r) \/ SingleNet(r)

AnalyzeSpec == InitAnalyze /\ [][NextAnalyze]_vars

\* ------------------------------------------- runs over stored search data
\* a company ab with the competitor ba
DataSite == [company |-> <<"a", "b">>, competitors |-> << <<"b", "a">> >>]

\* what an earlier run received: the company and the competitor on both
\* engines
EarlierWeb ==
  [organic |-> <<Link(<<"a", "b">>), Link(<<"b", "a">>)>>, shopping |-> <<>>,
   brands |-> <<>>, stores |-> <<>>, bing |-> <<Link(<<"a", "b">>), Link(<<"b", "a">>)>>]

\* the organic results a lookup receives: nothing, or the company
DataOrganic == {<<>>, <<Link(<<"a", "b">>)>>}

\* the shopping results and the immersive products it receives: none, or
\* the competitor as a seller and a product of the brand ab sold by a store
DataExtras ==
  {[shopping |-> <<>>, brands |-> <<>>, stores |-> <<>>],
   [shopping |-> <<Link(<<"b", "a">>)>>, brands |-> << <<"a", "b">> >>,
    stores |-> <<Link(<<"b", ".", "a">>)>>]}

DataWebs ==
  {[organic |-> o, shopping |-> x.shopping, brands |-> x.brands, stores |-> x.stores,
    bing |-> o] : o \in DataOrganic, x \in DataExtras}

InitData ==
  /\ \E k \in 0..MaxDataPrompts :
       /\ prompts = PromptUniverse(k)
       /\ \/ /\ profile = [status |-> "prompts", progress |-> 70]
             /\ results = <<>>
          \/ /\ k > 0
             /\ profile = [status |-> "done", progress |-> PROGRESS_DONE]
             /\ results = CompletedResults(prompts, EarlierWeb, DataSite)
  /\ InitRunLocals
  /\ InitReportIdle
  /\ site = DataSite
  /\ web \in [Requests -> DataWebs]

NextData ==
  \/ \E r \in BatchRequests : BatchStep(r) \/ BatchNet(r)
  \/ \E r \in SingleRequests :
       \/ \E pid \in PromptUniverse(MaxDataPrompts) : SingleStart(r, pid)
       \/ SingleReadPrompt(r)
       \/ SingleLookupStart(r)
       \/ SingleNet(r)

DataSpec == InitData /\ [][NextData]_vars

\* =========================================================================
\* Overall report: app/api/profiles/[id]/report/overall (report/route.ts)
\* =========================================================================

\* ------------------------------------------------------------ JSON values
\* A JSON value is a record [t, v]: t is the JavaScript type of the value.
JUndef == [t |-> "undef"]
JNull == [t |-> "null"]
JLit == [t |-> "lit"]
JStr(x) == [t |-> "str", v |-> x]
JId(pid) == [t |-> "id", v |-> pid]
JArr(x) == [t |-> "arr", v |-> x]
JObj(x) == [t |-> "obj", v |-> x]

\* x.name on an object; a primitive has no own field
Field(x, name) == IF x.t = "obj" /\ name \in DOMAIN x.v THEN x.v[name] ELSE JUndef

Truthy(x) == x.t \notin {"undef", "null"} /\ ~(x.t = "str" /\ x.v = "")

IsArray(x) == x.t = "arr"

\* ---------------------------------------------------- collaborator texts
\* The raw text is a sequence of tokens: FENCE is ```, LANG is the word json
\* written right after a fence, LB and RB are the braces of the outermost
\* object, BODY is the members between them, LIT is a JSON literal that is
\* not an object, JUNK is any other prose.
Tokens == {"FENCE", "LANG", "LB", "RB", "BODY", "LIT", "JUNK"}

Texts == UNION {[1..n -> Tokens] : n \in 0..MaxTextLen}

DropFirst(s, k) == SubSeq(s, k + 1, Len(s))

StripCodeFences(s) ==
  LET s1 == IF Len(s) >= 1 /\ s[1] = "FENCE"
            THEN IF Len(s) >= 2 /\ s[2] = "LANG" THEN DropFirst(s, 2) ELSE DropFirst(s, 1)
            ELSE s
  IN IF Len(s1) >= 1 /\ s1[Len(s1)] = "FENCE" THEN SubSeq(s1, 1, Len(s1) - 1) ELSE s1

ExtractJsonBlock(s) ==
  LET lbs == {k \in 1..Len(s) : s[k] = "LB"}
      rbs == {k \in 1..Len(s) : s[k] = "RB"}
  IN IF lbs # {} /\ rbs # {}
     THEN LET first == CHOOSE k \in lbs : \A j \in lbs : k <= j
              last == CHOOSE k \in rbs : \A j \in rbs : k >= j
          IN IF last > first THEN SubSeq(s, first, last) ELSE s
     ELSE s

EmptyObjectText == <<"LB", "RB">>

IsJson(s) == s \in {EmptyObjectText, <<"LB", "BODY", "RB">>, <<"LIT">>}

\* JSON.parse of a text that IsJson; body is the value the members spell
JsonParse(s, body) ==
  IF s = EmptyObjectText THEN JObj(<<>>)
  ELSE IF s = <<"LIT">> THEN JLit
  ELSE body

SafeParse(s, body) ==
  LET stripped == StripCodeFences(s)
      inner == ExtractJsonBlock(stripped)
  IN IF IsJson(stripped) THEN [ok |-> TRUE, val |-> JsonParse(stripped, body)]
     ELSE IF IsJson(inner) THEN [ok |-> TRUE, val |-> JsonParse(inner, body)]
     ELSE [ok |-> FALSE]

\* --------------------------------------------------------------- scoring
CAT_WEIGHT(c) ==
  IF c = "brainstorming" THEN 10
  ELSE IF c = "identified_problem" THEN 13
  ELSE IF c = "solution_comparing" THEN 17
  ELSE 9

\* variant: a finished lookup counts as presence
HasCompanyByStatus(er) == er.status = "done"

\* !!g.hasCompany
HasCompany(er) == "hasCompany" \in DOMAIN er /\ er.hasCompany

HitsOf(er) == IF "competitorsHit" \in DOMAIN er THEN er.competitorsHit ELSE <<>>

\* presenceScore, missingPresence and categoryWeight are in tenths,
\* competitorPressure in quarters, opportunityScore in thousandths
\* variant: bing present weighs as much as google present
PresenceScoreEqualWeights(googleHas, bingHas) ==
  (IF googleHas THEN 20 ELSE 0) + (IF bingHas THEN 20 ELSE 0)

PresenceScore(googleHas, bingHas) ==
  (IF googleHas THEN 20 ELSE 0) + (IF bingHas THEN 12 ELSE 0)

\* variant: 2 - presenceScore without the floor at 0
MissingPresenceNoFloor(presenceScore) == 20 - presenceScore

MissingPresence(presenceScore) ==
  IF 20 - presenceScore > 0 THEN 20 - presenceScore ELSE 0

CompetitorPressure(hits) == IF hits < 4 THEN hits ELSE 4

\* variant: the pressure term is subtracted
OpportunityScoreMinus(missingPresence, competitorPressure, categoryWeight) ==
  (missingPresence * (100 - 15 * competitorPressure) * categoryWeight + 5) \div 10

\* +(missingPresence * (1 + 0.6 * competitorPressure) * categoryWeight).toFixed(3)
OpportunityScore(missingPresence, competitorPressure, categoryWeight) ==
  (missingPresence * (100 + 15 * competitorPressure) * categoryWeight + 5) \div 10

ComputeSignal(p, res) ==
  LET g == EngineResult(res, p, "google")
      b == EngineResult(res, p, "bing")
      googleHas == HasCompany(g)
      bingHas == HasCompany(b)
      competitorDomains == Dedupe(HitsOf(g) \o HitsOf(b))
      hits == Len(competitorDomains)
      presenceScore == PresenceScore(googleHas, bingHas)
      missingPresence == MissingPresence(presenceScore)
      competitorPressure == CompetitorPressure(hits)
      categoryWeight == CAT_WEIGHT(p.cat)
      opportunityScore == OpportunityScore(missingPresence, competitorPressure, categoryWeight)
  IN [promptId |-> p, category |-> p.cat, googleHas |-> googleHas, bingHas |-> bingHas,
      competitorDomains |-> competitorDomains, competitorHitsCount |-> hits,
      presenceScore |-> presenceScore,
      missingPresence |-> missingPresence, competitorPressure |-> competitorPressure,
      categoryWeight |-> categoryWeight, opportunityScore |-> opportunityScore]

ComputeAll(flat, res) == [k \in 1..Len(flat) |-> ComputeSignal(flat[k], res)]

RECURSIVE FilterCategory(_, _)
FilterCategory(s, cat) ==
  IF s = <<>> THEN <<>>
  ELSE LET rest == FilterCategory(SubSeq(s, 1, Len(s) - 1), cat)
       IN IF s[Len(s)].category = cat THEN Append(rest, s[Len(s)]) ELSE rest

\* ------------------------------------------------------------- narrative
\* cat.replace("_", " ") + " - Core" (the source writes an em dash)
FallbackTitle(c) ==
  IF c = "brainstorming" THEN "brainstorming - Core"
  ELSE IF c = "identified_problem" THEN "identified problem - Core"
  ELSE IF c = "solution_comparing" THEN "solution comparing - Core"
  ELSE "info seeking - Core"

FallbackIcon(c) ==
  IF c = "solution_comparing" THEN "search"
  ELSE IF c = "identified_problem" THEN "alert"
  ELSE IF c = "brainstorming" THEN "building"
  ELSE "file"

\* variant: every fallback cluster lists all prompts
FallbackClustersAll(computed) ==
  [k \in 1..4 |->
     JObj([title |-> JStr(FallbackTitle(CatOrder[k])),
           icon |-> JStr(FallbackIcon(CatOrder[k])),
           items |-> JArr([j \in 1..Len(computed) |-> JId(computed[j].promptId)])])]

FallbackClusters(computed) ==
  [k \in 1..4 |->
     LET mine == FilterCategory(computed, CatOrder[k])
     IN JObj([title |-> JStr(FallbackTitle(CatOrder[k])),
              icon |-> JStr(FallbackIcon(CatOrder[k])),
              items |-> JArr([j \in 1..Len(mine) |-> JId(mine[j].promptId)])])]

FallbackInsights ==
  JObj([strengths |-> JArr(<<JStr("Model fallback: basic presence in some categories.")>>),
        weaknesses |-> JArr(<<JStr("Model fallback: refine cluster themes for sharper targeting.")>>),
        competitiveNarrative |-> JStr("Model fallback: competitors present in overlapping prompts; prioritize BOFU solution-comparing intents."),
        categoryNarrative |-> JObj([
          brainstorming |-> JStr("Awareness-stage prompts benefit from canonical 'how-to' structures."),
          identified_problem |-> JStr("Problem-led intents want crisp troubleshooting and solution patterns."),
          solution_comparing |-> JStr("High-intent buyers seek head-to-head comparisons and decision criteria."),
          info_seeking |-> JStr("Educational primitives (definitions, standards) anchor AI-ready knowledge graphs.")])])

DefaultInsights == JObj([strengths |-> JArr(<<>>), weaknesses |-> JArr(<<>>)])

\* the try block of the narrative step: what llmClusters and llmInsights
\* are after the collaborator answered resp (body: the parsed members)
Narrative(resp, body, computed) ==
  LET raw == IF resp.text = <<>> THEN EmptyObjectText ELSE resp.text
      parsed == SafeParse(raw, body)
      fallback == [clusters |-> FallbackClusters(computed), insights |-> FallbackInsights]
  IN IF resp.kind = "throw" THEN fallback
     ELSE IF ~parsed.ok THEN fallback
     ELSE [clusters |-> IF IsArray(Field(parsed.val, "clusters"))
                        THEN Field(parsed.val, "clusters").v ELSE <<>>,
           insights |-> IF Truthy(Field(parsed.val, "insights"))
                        THEN Field(parsed.val, "insights") ELSE DefaultInsights]

KnownIds(computed) == {computed[k].promptId : k \in 1..Len(computed)}

\* scoreById.get(id) || 0
ScoreById(computed, pid) ==
  IF \E j \in 1..Len(computed) : computed[j].promptId = pid
  THEN LET k == CHOOSE j \in 1..Len(computed) : computed[j].promptId = pid
       IN computed[k].opportunityScore
  ELSE 0

\* variant: every id the collaborator listed is kept
RECURSIVE ValidItemsUnfiltered(_, _)
ValidItemsUnfiltered(items, known) ==
  IF items = <<>> THEN <<>>
  ELSE LET rest == ValidItemsUnfiltered(SubSeq(items, 1, Len(items) - 1), known)
           x == items[Len(items)]
       IN IF x.t = "id" THEN Append(rest, x.v) ELSE rest

RECURSIVE ValidItems(_, _)
ValidItems(items, known) ==
  IF items = <<>> THEN <<>>
  ELSE LET rest == ValidItems(SubSeq(items, 1, Len(items) - 1), known)
           x == items[Len(items)]
       IN IF x.t = "id" /\ x.v \in known THEN Append(rest, x.v) ELSE rest

RECURSIVE SumScores(_, _)
SumScores(ids, computed) ==
  IF ids = <<>> THEN 0
  ELSE ScoreById(computed, ids[Len(ids)]) + SumScores(SubSeq(ids, 1, Len(ids) - 1), computed)

\* cl.items throws on null and undefined; (cl.items || []).filter throws
\* when items is truthy and has no filter method
ClusterThrows(cl) ==
  \/ cl.t \in {"null", "undef"}
  \/ Truthy(Field(cl, "items")) /\ ~IsArray(Field(cl, "items"))

NormalizeCluster(cl, computed) ==
  LET items == IF Truthy(Field(cl, "items")) THEN Field(cl, "items").v ELSE <<>>
      validItems == ValidItems(items, KnownIds(computed))
  IN [title |-> IF Truthy(Field(cl, "title")) THEN Field(cl, "title").v ELSE "Cluster",
      icon |-> IF Truthy(Field(cl, "icon")) THEN Field(cl, "icon").v ELSE "search",
      items |-> validItems,
      opportunitySum |-> SumScores(validItems, computed)]

Opportunities(computed) ==
  [k \in 1..Len(computed) |->
     [promptId |-> computed[k].promptId, category |-> computed[k].category,
      opportunityScore |-> computed[k].opportunityScore,
      competitorDomains |-> computed[k].competitorDomains,
      missingPresence |-> computed[k].missingPresence,
      competitorPressure |-> computed[k].competitorPressure]]

\* variant: an entry goes in front of the entries of equal score
RECURSIVE SortTiesReversed(_)
SortTiesReversed(s) ==
  IF s = <<>> THEN <<>>
  ELSE LET front == SortTiesReversed(SubSeq(s, 1, Len(s) - 1))
           x == s[Len(s)]
           n == Cardinality({k \in 1..Len(front) : front[k].opportunityScore > x.opportunityScore})
       IN SubSeq(front, 1, n) \o <<x>> \o SubSeq(front, n + 1, Len(front))

\* [...computed].sort((a, b) => b.opportunityScore - a.opportunityScore):
\* the sort is stable, entries of equal score keep their order
RECURSIVE SortByScoreDesc(_)
SortByScoreDesc(s) ==
  IF s = <<>> THEN <<>>
  ELSE LET front == SortByScoreDesc(SubSeq(s, 1, Len(s) - 1))
           x == s[Len(s)]
           n == Cardinality({k \in 1..Len(front) : front[k].opportunityScore >= x.opportunityScore})
       IN SubSeq(front, 1, n) \o <<x>> \o SubSeq(front, n + 1, Len(front))

Slice(s, n) == SubSeq(s, 1, IF Len(s) < n THEN Len(s) ELSE n)

\* a ratio n / d, kept as the pair of its terms
Ratio(n, d) == [num |-> n, den |-> d]

ToPct(n, d) == IF d = 0 THEN Ratio(0, 1) ELSE Ratio(n, d)

IsPresent(c) == c.googleHas \/ c.bingHas

IsCompetitorOnly(c) == ~c.googleHas /\ ~c.bingHas /\ c.competitorHitsCount > 0

IsWhiteSpace(c) == ~c.googleHas /\ ~c.bingHas /\ c.competitorHitsCount = 0

\* computed.filter(...).length
CountPresent(s) == Cardinality({k \in 1..Len(s) : IsPresent(s[k])})

CountCompetitorOnly(s) == Cardinality({k \in 1..Len(s) : IsCompetitorOnly(s[k])})

CountWhiteSpace(s) == Cardinality({k \in 1..Len(s) : IsWhiteSpace(s[k])})

RECURSIVE SumPressure(_)
SumPressure(s) ==
  IF s = <<>> THEN 0 ELSE s[Len(s)].competitorPressure + SumPressure(SubSeq(s, 1, Len(s) - 1))

TopMoneyPrompts(computed) ==
  LET top == Slice(SortByScoreDesc(computed), 5)
  IN [k \in 1..Len(top) |->
        [promptId |-> top[k].promptId, category |-> top[k].category,
         opportunityScore |-> top[k].opportunityScore]]

\* competitorPressureIdx: the pressures are in quarters
Metrics(computed) ==
  LET total == IF Len(computed) = 0 THEN 1 ELSE Len(computed)
  IN [sov |-> ToPct(CountPresent(computed), total),
      whiteSpacePct |-> ToPct(CountWhiteSpace(computed), total),
      competitorPressureIdx |-> Ratio(SumPressure(computed), 4 * total),
      topMoneyPrompts |-> TopMoneyPrompts(computed)]

FunnelSov(computed) ==
  [k \in 1..4 |->
     LET arr == FilterCategory(computed, CatOrder[k])
         denom == IF Len(arr) = 0 THEN 1 ELSE Len(arr)
     IN [category |-> CatOrder[k],
         presentPct |-> Ratio(CountPresent(arr), denom),
         competitorOnlyPct |-> Ratio(CountCompetitorOnly(arr), denom),
         whiteSpacePct |-> Ratio(CountWhiteSpace(arr), denom)]]

NextActions(computed) ==
  LET top == Slice(SortByScoreDesc(computed), 10)
  IN [k \in 1..Len(top) |->
        [rank |-> k, promptId |-> top[k].promptId, category |-> top[k].category,
         opportunityScore |-> top[k].opportunityScore,
         missingPresence |-> top[k].missingPresence,
         competitorPressure |-> top[k].competitorPressure,
         categoryWeight |-> top[k].categoryWeight]]

\* the report object, without generatedAt and the company's name and url
BuildReport(nar, computed) ==
  [exists |-> TRUE,
   metrics |-> Metrics(computed),
   clusters |-> [k \in 1..Len(nar.clusters) |-> NormalizeCluster(nar.clusters[k], computed)],
   opportunities |-> Opportunities(computed),
   nextActions |-> NextActions(computed),
   funnelSov |-> FunnelSov(computed),
   totalPrompts |-> Len(computed),
   insights |-> nar.insights]

\* ------------------------------------------------- report request: Init
HitDomains == <<"c1.com", "c2.com", "c3.com", "c4.com", "c5.com", "c6.com">>

FoundValue(has, hits) == [status |-> "done", hasCompany |-> has, competitorsHit |-> hits]

\* the shapes a results/{promptId} node has after its lookups ended
ResultShapes ==
  { [e \in Engines |-> IF e = "google" THEN FoundValue(TRUE, <<>>)
                       ELSE FoundValue(FALSE, SubSeq(HitDomains, 1, 1))],
    [e \in Engines |-> IF e = "google" THEN FoundValue(FALSE, SubSeq(HitDomains, 1, 2))
                       ELSE ErrorValue(BingFailMsg)] }

InitReport ==
  /\ \E k \in 0..MaxReportPrompts : prompts = PromptUniverse(k)
  /\ profile = [status |-> "done", progress |-> PROGRESS_DONE]
  /\ \E D \in SUBSET prompts : results \in [D -> ResultShapes]
  /\ InitLocals
  /\ InitReportIdle

\* ------------------------------------------- responses of the collaborator
UnknownId == [cat |-> "brainstorming", key |-> 99]

GoodCluster ==
  JObj([title |-> JStr("Awareness"), icon |-> JStr("building"),
        items |-> JArr(<<JId(PromptAt(1)), JId(UnknownId)>>),
        opportunitySum |-> JLit])

SomeInsights == JObj([strengths |-> JArr(<<JStr("s1")>>), weaknesses |-> JArr(<<>>)])

\* values the members of a parseable object can spell
Payloads ==
  << JObj([clusters |-> JArr(<<GoodCluster>>), insights |-> SomeInsights]),
     JObj([clusters |-> JArr(<<GoodCluster, JNull>>), insights |-> SomeInsights]),
     JObj([clusters |-> JArr(<<JObj([title |-> JStr("T"), items |-> JStr("p1, p2")])>>)]),
     JObj([clusters |-> JArr(<<JObj([title |-> JStr(""), items |-> JNull]), JLit>>),
           insights |-> JNull]),
     JObj([clusters |-> JObj(<<>>), insights |-> SomeInsights]) >>

\* the text parses and what it spells is its BODY
SpellsBody(t) == SafeParse(t, JNull).ok /\ SafeParse(t, JNull).val.t = "null"

Responses ==
  {[kind |-> "throw", text |-> <<>>, body |-> JUndef]}
  \cup {[kind |-> "text", text |-> t, body |-> JUndef] : t \in {x \in Texts : ~SpellsBody(x)}}
  \cup {[kind |-> "text", text |-> t, body |-> Payloads[k]] :
          t \in {x \in Texts : SpellsBody(x)}, k \in DOMAIN Payloads}

\* ---------------------------------------------- report request: actions
\* variant: the write keeps the insights of a report already stored
PersistReportMerge(old, new) ==
  IF old.exists THEN [new EXCEPT !.insights = old.insights] ELSE new

\* set(child(profileRef, "reports/overall"), report)
PersistReport(old, new) == new

ReportStart(q) ==
  /\ repPc[q] = "idle"
  /\ repPc' = [repPc EXCEPT ![q] = "profile"]
  /\ UNCHANGED <<profile, prompts, results, report, repPrompts, repComputed, repBuilt, repHttp, llmResp>>
  /\ UNCHANGED serpVars
  /\ UNCHANGED epVars
  /\ UNCHANGED envVars

ReportReadProfile(q) ==
  /\ repPc[q] = "profile"
  /\ IF ProfileExists(profile)
     THEN /\ repPc' = [repPc EXCEPT ![q] = "prompts"]
          /\ UNCHANGED repHttp
     ELSE /\ repPc' = [repPc EXCEPT ![q] = "done"]
          /\ repHttp' = [repHttp EXCEPT ![q] = 404]
  /\ UNCHANGED <<profile, prompts, results, report, repPrompts, repComputed, repBuilt, llmResp>>
  /\ UNCHANGED serpVars
  /\ UNCHANGED epVars
  /\ UNCHANGED envVars

ReportReadPrompts(q) ==
  /\ repPc[q] = "prompts"
  /\ repPrompts' = [repPrompts EXCEPT ![q] = FlattenPrompts(prompts)]
  /\ repPc' = [repPc EXCEPT ![q] = "results"]
  /\ UNCHANGED <<profile, prompts, results, report, repComputed, repBuilt, repHttp, llmResp>>
  /\ UNCHANGED serpVars
  /\ UNCHANGED epVars
  /\ UNCHANGED envVars

\* the read of the results and the scoring loop, up to the call of the
\* collaborator
ReportReadResults(q) ==
  /\ repPc[q] = "results"
  /\ repComputed' = [repComputed EXCEPT ![q] = ComputeAll(repPrompts[q], results)]
  /\ repPc' = [repPc EXCEPT ![q] = "llm"]
  /\ UNCHANGED <<profile, prompts, results, report, repPrompts, repBuilt, repHttp, llmResp>>
  /\ UNCHANGED serpVars
  /\ UNCHANGED epVars
  /\ UNCHANGED envVars

\* the collaborator settles with one of resps: the narrative try/catch,
\* the normalisation of the clusters, the set of reports/overall and the
\* response
ReportNarrative(q, resps) ==
  /\ repPc[q] = "llm"
  /\ \E resp \in resps :
       /\ llmResp' = [llmResp EXCEPT ![q] = resp]
       /\ LET nar == Narrative(resp, resp.body, repComputed[q])
          IN IF \E k \in 1..Len(nar.clusters) : ClusterThrows(nar.clusters[k])
             THEN /\ repHttp' = [repHttp EXCEPT ![q] = 500]
                  /\ UNCHANGED <<report, repBuilt>>
             ELSE /\ repHttp' = [repHttp EXCEPT ![q] = 200]
                  /\ repBuilt' = [repBuilt EXCEPT ![q] = BuildReport(nar, repComputed[q])]
                  /\ report' = PersistReport(report, repBuilt'[q])
  /\ repPc' = [repPc EXCEPT ![q] = "done"]
  /\ UNCHANGED <<profile, prompts, results, repPrompts, repComputed>>
  /\ UNCHANGED serpVars
  /\ UNCHANGED epVars
  /\ UNCHANGED envVars

ReportReads(q) ==
  \/ ReportStart(q)
  \/ ReportReadProfile(q)
  \/ ReportReadPrompts(q)
  \/ ReportReadResults(q)

SoloReports == {"repA"}

NextReport ==
  \E q \in SoloReports :
    \/ ReportReads(q)
    \/ ReportNarrative(q, Responses)

ReportSpec == InitReport /\ [][NextReport]_vars

\* ------------------------------------ report runs racing with the prompts
\* a report an earlier run stored
StaleReport ==
  BuildReport([clusters |-> <<>>,
               insights |-> JObj([strengths |-> JArr(<<JStr("stale")>>),
                                  weaknesses |-> JArr(<<JStr("stale")>>)])], <<>>)

InitRace ==
  /\ \E k \in 0..MaxRacePrompts : prompts = PromptUniverse(k)
  /\ profile = [status |-> "done", progress |-> PROGRESS_DONE]
  /\ results \in [prompts -> ResultShapes]
  /\ InitLocals
  /\ InitReportLocals
  /\ report \in {NoReport, StaleReport}

\* the collaborator's answers kept for the race: an exception, a good
\* object, an object with a null cluster
FewResponses ==
  { [kind |-> "throw", text |-> <<>>, body |-> JUndef],
    [kind |-> "text", text |-> <<"LB", "BODY", "RB">>, body |-> Payloads[1]],
    [kind |-> "text", text |-> <<"LB", "BODY", "RB">>, body |-> Payloads[2]] }

\* an add-prompt request creates its prompt row
AddPromptSet(cat) ==
  /\ Cardinality(prompts) < MaxRacePrompts
  /\ NextKey(prompts, cat) < MaxRacePrompts
  /\ prompts' = prompts \cup {[cat |-> cat, key |-> NextKey(prompts, cat)]}
  /\ UNCHANGED <<profile, results>>
  /\ UNCHANGED serpVars
  /\ UNCHANGED repVars
  /\ UNCHANGED epVars
  /\ UNCHANGED envVars

\* a prompt is deleted; its results stay
DeletePrompt(p) ==
  /\ p \in prompts
  /\ prompts' = prompts \ {p}
  /\ UNCHANGED <<profile, results>>
  /\ UNCHANGED serpVars
  /\ UNCHANGED repVars
  /\ UNCHANGED epVars
  /\ UNCHANGED envVars

\* one report run while prompts are added and deleted
NextRace ==
  \/ \E q \in SoloReports : ReportReads(q)
  \/ \E q \in SoloReports : ReportNarrative(q, FewResponses)
  \/ \E cat \in {CatOrder[k] : k \in 1..4} : AddPromptSet(cat)
  \/ \E p \in prompts : DeletePrompt(p)

RaceSpec == InitRace /\ [][NextRace]_vars

\* two report runs on the same profile
NextOverlap ==
  \/ \E q \in ReportRequests : ReportReads(q)
  \/ \E q \in ReportRequests : ReportNarrative(q, FewResponses)

OverlapSpec == InitRace /\ [][NextOverlap]_vars

\* --------------------------------------------- scoring over stored results
\* what results/{promptId}/google can hold: nothing, a status without
\* presence data, or a finished lookup with 0, 1 or 2 competitor hits
GoogleValues ==
  {Absent, CheckingValue, ErrorValue(GoogleFailMsg), DoneValue}
  \cup {FoundValue(has, SubSeq(HitDomains, 1, n)) : has \in BOOLEAN, n \in {0, 1, 2}}

\* what results/{promptId}/bing can hold; its hits overlap google's
BingValues ==
  {Absent, CheckingValue, ErrorValue(BingFailMsg), DoneValue}
  \cup {FoundValue(has, hits) : has \in BOOLEAN,
          hits \in {<<>>, SubSeq(HitDomains, 2, 3), SubSeq(HitDomains, 3, 6),
                    SubSeq(HitDomains, 2, 6)}}

ScoreShapes ==
  {[e \in Engines |-> IF e = "google" THEN g ELSE b] : g \in GoogleValues, b \in BingValues}

\* the prompts a scored profile draws from: one of each category and a
\* second one of the first category
ScorePromptPool == PromptUniverse(4) \cup {[cat |-> CatOrder[1], key |-> 1]}

AllTerminal(ps, res) ==
  \A p \in ps : \A e \in Engines : EngineResult(res, p, e).status \in Terminal

\* the profile is 'done' when every lookup has ended, in 'serp_check' else
InitScore ==
  /\ prompts \in {S \in SUBSET ScorePromptPool : Cardinality(S) <= MaxScorePrompts}
  /\ results \in [prompts -> ScoreShapes] \cup {<<>>}
  /\ profile = IF AllTerminal(prompts, results)
               THEN [status |-> "done", progress |-> PROGRESS_DONE]
               ELSE [status |-> "serp_check", progress |-> PROGRESS_START]
  /\ InitLocals
  /\ InitReportIdle

NextScore ==
  \/ \E q \in SoloReports : ReportReads(q)
  \/ \E q \in SoloReports : ReportNarrative(q, FewResponses)

ScoreSpec == InitScore /\ [][NextScore]_vars

\* --------------------------------------------- ranking over many prompts
\* three finished results: the company found, nothing found, only bing
\* found the company next to two competitors
RankShapes ==
  << [e \in Engines |-> FoundValue(e = "google", <<>>)],
     [e \in Engines |-> FoundValue(FALSE, <<>>)],
     [e \in Engines |-> FoundValue(e = "bing", SubSeq(HitDomains, 1, 2))] >>

\* the results of a profile, one of the three shapes per prompt
RankResults(ps, a, b) ==
  [p \in ps |-> RankShapes[((PromptRank(p) * a + b) % 3) + 1]]

InitRank ==
  /\ \E k \in 0..MaxRankPrompts : prompts = PromptUniverse(k)
  /\ \E a \in 0..2, b \in 0..2 : results = RankResults(prompts, a, b)
  /\ profile = [status |-> "done", progress |-> PROGRESS_DONE]
  /\ InitLocals
  /\ InitReportIdle

RankSpec == InitRank /\ [][NextScore]_vars

\* ------------------------------------------------------------- unknown profile id
\* the other endpoints, up to the point where each has looked the profile up

NoFirecrawlKey == "FIRECRAWL_API_KEY is not set"

\* variant: the catch block stores the status without the message
CatchWriteStatusOnly(p, msg) == UpdateFields(p, [status |-> "error"])

\* the catch block of the bootstrap route
CatchWrite(p, msg) == UpdateFields(p, [status |-> "error", lastError |-> msg])

\* bootstrap: the key check comes before the profile is read; a missing
\* key lands in the catch block, which updates the profile node and
\* answers 500
BootstrapStart(keySet) ==
  /\ epPc["bootstrap"] = "idle"
  /\ IF keySet
     THEN /\ epPc' = [epPc EXCEPT !["bootstrap"] = "get"]
          /\ UNCHANGED <<profile, epHttp, epErr>>
     ELSE /\ profile' = CatchWrite(profile, NoFirecrawlKey)
          /\ epErr' = [epErr EXCEPT !["bootstrap"] = NoFirecrawlKey]
          /\ epPc' = [epPc EXCEPT !["bootstrap"] = "done"]
          /\ epHttp' = [epHttp EXCEPT !["bootstrap"] = 500]
  /\ UNCHANGED <<prompts, results, rkind, rpc, snap, midx, wpc, pnext, pexec, doneCnt, wlog>>
  /\ UNCHANGED <<bootResult, bootIdx>>
  /\ UNCHANGED epLoc
  /\ UNCHANGED repVars
  /\ UNCHANGED envVars

BootstrapGet ==
  /\ epPc["bootstrap"] = "get"
  /\ IF ProfileExists(profile)
     THEN /\ profile' = UpdateFields(profile, [status |-> "scraping", progress |-> 25])
          /\ epPc' = [epPc EXCEPT !["bootstrap"] = "scrape"]
          /\ UNCHANGED epHttp
     ELSE /\ epPc' = [epPc EXCEPT !["bootstrap"] = "done"]
          /\ epHttp' = [epHttp EXCEPT !["bootstrap"] = 404]
          /\ UNCHANGED profile
  /\ UNCHANGED <<prompts, results, rkind, rpc, snap, midx, wpc, pnext, pexec, doneCnt, wlog>>
  /\ UNCHANGED <<epErr, bootResult, bootIdx>>
  /\ UNCHANGED epLoc
  /\ UNCHANGED repVars
  /\ UNCHANGED envVars

\* a request with its body accepted issues its first read
EndpointStart(ep) ==
  /\ ep # "bootstrap"
  /\ epPc[ep] = "idle"
  /\ epPc' = [epPc EXCEPT ![ep] = "get"]
  /\ UNCHANGED <<profile, prompts, results, epHttp>>
  /\ UNCHANGED <<rkind, rpc, snap, midx, wpc, pnext, pexec, doneCnt, wlog>>
  /\ UNCHANGED <<epErr, bootResult, bootIdx>>
  /\ UNCHANGED epLoc
  /\ UNCHANGED repVars
  /\ UNCHANGED envVars

\* add prompt: the profile and the category's prompts are read together
AddRead(a, cat) ==
  /\ epPc[a] = "get"
  /\ epLoc' = [epLoc EXCEPT ![a] = [cat |-> cat, next |-> NextKey(prompts, cat),
                                     seen |-> ProfileExists(profile), left |-> 1]]
  /\ epPc' = [epPc EXCEPT ![a] = "got"]
  /\ UNCHANGED <<profile, prompts, results, epHttp, epErr, bootResult, bootIdx>>
  /\ UNCHANGED serpVars
  /\ UNCHANGED repVars
  /\ UNCHANGED envVars

\* both reads have resolved: a missing profile is answered 404, otherwise
\* the prompt row is set under the key computed from what was read
AddSet(a) ==
  /\ epPc[a] = "got"
  /\ IF epLoc[a].seen
     THEN /\ prompts' = prompts \cup {[cat |-> epLoc[a].cat, key |-> epLoc[a].next]}
          /\ epLoc' = [epLoc EXCEPT ![a].left = 0]
          /\ epPc' = [epPc EXCEPT ![a] = "volume"]
          /\ UNCHANGED epHttp
     ELSE /\ epPc' = [epPc EXCEPT ![a] = "done"]
          /\ epHttp' = [epHttp EXCEPT ![a] = 404]
          /\ UNCHANGED <<prompts, epLoc>>
  /\ UNCHANGED <<profile, results, epErr, bootResult, bootIdx>>
  /\ UNCHANGED serpVars
  /\ UNCHANGED repVars
  /\ UNCHANGED envVars

\* generate-more: the route calls generateMorePromptsForCategory first,
\* which throws on a missing profile; the route's catch answers 500
GenerateMoreGet ==
  /\ epPc["generate_more"] = "get"
  /\ IF ProfileExists(profile)
     THEN /\ epPc' = [epPc EXCEPT !["generate_more"] = "category"]
          /\ UNCHANGED epHttp
     ELSE /\ epPc' = [epPc EXCEPT !["generate_more"] = "done"]
          /\ epHttp' = [epHttp EXCEPT !["generate_more"] = 500]
  /\ UNCHANGED <<profile, prompts, results>>
  /\ UNCHANGED <<rkind, rpc, snap, midx, wpc, pnext, pexec, doneCnt, wlog>>
  /\ UNCHANGED <<epErr, bootResult, bootIdx>>
  /\ UNCHANGED epLoc
  /\ UNCHANGED repVars
  /\ UNCHANGED envVars

\* the category's prompts are read, nextIndex follows from them, and the
\* collaborator is called
GenerateMoreRead(cat) ==
  /\ epPc["generate_more"] = "category"
  /\ epLoc' = [epLoc EXCEPT !["generate_more"] =
                 [cat |-> cat, next |-> NextKey(prompts, cat), seen |-> TRUE, left |-> 0]]
  /\ epPc' = [epPc EXCEPT !["generate_more"] = "llm"]
  /\ UNCHANGED <<profile, prompts, results, epHttp, epErr, bootResult, bootIdx>>
  /\ UNCHANGED serpVars
  /\ UNCHANGED repVars
  /\ UNCHANGED envVars

\* the collaborator settled: n new prompts after slice(0, count), or a throw
\* that the route's catch answers with 500
GenerateMoreRespond(failed, n) ==
  /\ epPc["generate_more"] = "llm"
  /\ IF failed
     THEN /\ epPc' = [epPc EXCEPT !["generate_more"] = "done"]
          /\ epHttp' = [epHttp EXCEPT !["generate_more"] = 500]
          /\ UNCHANGED epLoc
     ELSE /\ epLoc' = [epLoc EXCEPT !["generate_more"].left = n]
          /\ epPc' = [epPc EXCEPT !["generate_more"] = "persist"]
          /\ UNCHANGED epHttp
  /\ UNCHANGED <<profile, prompts, results, epErr, bootResult, bootIdx>>
  /\ UNCHANGED serpVars
  /\ UNCHANGED repVars
  /\ UNCHANGED envVars

\* set(prompts/{category}/{key}); nextIndex++
GenerateMoreSet ==
  /\ epPc["generate_more"] = "persist"
  /\ epLoc["generate_more"].left > 0
  /\ prompts' = prompts \cup {[cat |-> epLoc["generate_more"].cat,
                               key |-> epLoc["generate_more"].next]}
  /\ epLoc' = [epLoc EXCEPT !["generate_more"].next = @ + 1,
                            !["generate_more"].left = @ - 1]
  /\ UNCHANGED <<profile, results, epPc, epHttp, epErr, bootResult, bootIdx>>
  /\ UNCHANGED serpVars
  /\ UNCHANGED repVars
  /\ UNCHANGED envVars

\* generateMorePromptsForCategory returns the created ids to the route
GenerateMoreDone ==
  /\ epPc["generate_more"] = "persist"
  /\ epLoc["generate_more"].left = 0
  /\ epPc' = [epPc EXCEPT !["generate_more"] = "created"]
  /\ UNCHANGED <<profile, prompts, results, epHttp, epErr, bootResult, bootIdx, epLoc>>
  /\ UNCHANGED serpVars
  /\ UNCHANGED repVars
  /\ UNCHANGED envVars

\* per-prompt report: 404 on a missing profile, else the prompt is read
PromptReportGet ==
  /\ epPc["prompt_report"] = "get"
  /\ IF ProfileExists(profile)
     THEN /\ epPc' = [epPc EXCEPT !["prompt_report"] = "prompt"]
          /\ UNCHANGED epHttp
     ELSE /\ epPc' = [epPc EXCEPT !["prompt_report"] = "done"]
          /\ epHttp' = [epHttp EXCEPT !["prompt_report"] = 404]
  /\ UNCHANGED <<profile, prompts, results>>
  /\ UNCHANGED <<rkind, rpc, snap, midx, wpc, pnext, pexec, doneCnt, wlog>>
  /\ UNCHANGED <<epErr, bootResult, bootIdx>>
  /\ UNCHANGED epLoc
  /\ UNCHANGED repVars
  /\ UNCHANGED envVars

\* the SERP route answers 500 when runSerpChecksForProfile threw and 200
\* when it returned
SerpHttp(r) ==
  IF rpc[r] = "failed" THEN 500 ELSE IF rpc[r] = "done" THEN 200 ELSE 0

AllEndpoints == Endpoints \cup {"serp", "overall_report"}

SerpRequest == "reqA"

\* the response of each endpoint's one request, 0 while there is none
HttpOf(ep) ==
  IF ep = "serp" THEN SerpHttp(SerpRequest)
  ELSE IF ep = "overall_report" THEN repHttp["repA"]
  ELSE epHttp[ep]

InitNotFound ==
  /\ profile = MissingProfile
  /\ prompts = {}
  /\ results = <<>>
  /\ InitLocals
  /\ InitReportIdle

NextNotFound ==
  \/ \E keySet \in BOOLEAN : BootstrapStart(keySet)
  \/ BootstrapGet
  \/ \E ep \in Endpoints \ {"add2"} : EndpointStart(ep)
  \/ \E k \in 1..Len(CatOrder) : AddRead("add", CatOrder[k])
  \/ AddSet("add")
  \/ GenerateMoreGet
  \/ PromptReportGet
  \/ BatchStart(SerpRequest)
  \/ BatchProfileMissing(SerpRequest)
  \/ \E q \in SoloReports : ReportStart(q)
  \/ \E q \in SoloReports : ReportReadProfile(q)

NotFoundSpec == InitNotFound /\ [][NextNotFound]_vars

\* ------------------------------------------------------------- key allocation
\* two add requests and a generate-more request on one profile
KeyCats == {CatOrder[1], CatOrder[2]}

InitKey ==
  /\ \E k \in 0..MaxKeyPrompts : prompts = PromptUniverse(k)
  /\ profile = [status |-> "done", progress |-> PROGRESS_DONE]
  /\ results = CompletedResults(prompts, DefaultWeb, DefaultSite)
  /\ InitLocals
  /\ InitReportIdle

NextKeys ==
  \/ \E ep \in AddRequests \cup {"generate_more"} : EndpointStart(ep)
  \/ \E a \in AddRequests, cat \in KeyCats : AddRead(a, cat)
  \/ \E a \in AddRequests : AddSet(a)
  \/ GenerateMoreGet
  \/ \E cat \in KeyCats : GenerateMoreRead(cat)
  \/ GenerateMoreRespond(TRUE, 0)
  \/ \E n \in 0..MaxGenCount : GenerateMoreRespond(FALSE, n)
  \/ GenerateMoreSet
  \/ GenerateMoreDone

KeySpec == InitKey /\ [][NextKeys]_vars

\* ------------------------------------------------------------- bootstrap
\* the pipeline behind POST bootstrap: scrape, generatePromptsForProfile,
\* runSerpChecksForProfile, one after the other

ScrapeFailMsg == "scrape failed"
NoOpenAiKey == "OPENAI_API_KEY is not set"
OpenAiFailMsg == "openai request failed"
NoTextMsg == "OpenAI returned no text output."
ParseFailMsg == "Unexpected token"
ProfileNotFoundMsg == "Profile not found"

\* the profile node the dashboard creates before it calls bootstrap
CreatedProfile == [status |-> "creating", progress |-> 4]

\* the batch run the bootstrap request awaits
BootRequest == "reqA"

\* the catch block: the error is stored and the request answered 500
BootstrapCatch(msg) ==
  /\ profile' = CatchWrite(profile, msg)
  /\ epErr' = [epErr EXCEPT !["bootstrap"] = msg]
  /\ epPc' = [epPc EXCEPT !["bootstrap"] = "done"]
  /\ epHttp' = [epHttp EXCEPT !["bootstrap"] = 500]

\* firecrawl.scrape settled; on success the preview is saved
BootstrapScrape(out) ==
  /\ epPc["bootstrap"] = "scrape"
  /\ IF out = "ok"
     THEN /\ profile' = UpdateFields(profile, [progress |-> 45])
          /\ epPc' = [epPc EXCEPT !["bootstrap"] = "saved"]
          /\ UNCHANGED <<epHttp, epErr>>
     ELSE BootstrapCatch(ScrapeFailMsg)
  /\ UNCHANGED <<prompts, results, bootResult, bootIdx>>
  /\ UNCHANGED serpVars
  /\ UNCHANGED epLoc
  /\ UNCHANGED repVars
  /\ UNCHANGED envVars

\* generatePromptsForProfile is entered: the key check, then the profile read
BootstrapGenStart(keySet) ==
  /\ epPc["bootstrap"] = "saved"
  /\ IF keySet
     THEN /\ epPc' = [epPc EXCEPT !["bootstrap"] = "gen_get"]
          /\ UNCHANGED <<profile, epHttp, epErr>>
     ELSE BootstrapCatch(NoOpenAiKey)
  /\ UNCHANGED <<prompts, results, bootResult, bootIdx>>
  /\ UNCHANGED serpVars
  /\ UNCHANGED epLoc
  /\ UNCHANGED repVars
  /\ UNCHANGED envVars

\* the profile is read and marked generating_prompts; the collaborator is called
BootstrapGenGet ==
  /\ epPc["bootstrap"] = "gen_get"
  /\ IF ProfileExists(profile)
     THEN /\ profile' = UpdateFields(profile, [status |-> "generating_prompts", progress |-> 55])
          /\ epPc' = [epPc EXCEPT !["bootstrap"] = "llm"]
          /\ UNCHANGED <<epHttp, epErr>>
     ELSE BootstrapCatch(ProfileNotFoundMsg)
  /\ UNCHANGED <<prompts, results, bootResult, bootIdx>>
  /\ UNCHANGED serpVars
  /\ UNCHANGED epLoc
  /\ UNCHANGED repVars
  /\ UNCHANGED envVars

\* what the collaborator's answer comes to after coerceTen: a prompt set
\* with keys 0, 1, ... per category
GenResults == {PromptUniverse(k) : k \in 0..MaxBootPrompts}

GenFailures == {OpenAiFailMsg, NoTextMsg, ParseFailMsg}

\* the collaborator settled: it threw, gave no text, gave text that does not
\* parse, or gave a prompt set
BootstrapGenRespond(failed, msg, res) ==
  /\ epPc["bootstrap"] = "llm"
  /\ IF failed
     THEN /\ BootstrapCatch(msg)
          /\ UNCHANGED <<bootResult, bootIdx>>
     ELSE /\ bootResult' = FlattenPrompts(res)
          /\ bootIdx' = 1
          /\ epPc' = [epPc EXCEPT !["bootstrap"] = "persist"]
          /\ UNCHANGED <<profile, epHttp, epErr>>
  /\ UNCHANGED <<prompts, results>>
  /\ UNCHANGED serpVars
  /\ UNCHANGED epLoc
  /\ UNCHANGED repVars
  /\ UNCHANGED envVars

\* set(prompts/{category}/{key}) of the persist loop
BootstrapPersist ==
  /\ epPc["bootstrap"] = "persist"
  /\ bootIdx <= Len(bootResult)
  /\ prompts' = prompts \cup {bootResult[bootIdx]}
  /\ bootIdx' = bootIdx + 1
  /\ UNCHANGED <<profile, results, epPc, epHttp, epErr, bootResult>>
  /\ UNCHANGED serpVars
  /\ UNCHANGED epLoc
  /\ UNCHANGED repVars
  /\ UNCHANGED envVars

\* the loop is over: progress 70
BootstrapGenDone ==
  /\ epPc["bootstrap"] = "persist"
  /\ bootIdx > Len(bootResult)
  /\ profile' = UpdateFields(profile, [progress |-> 70])
  /\ epPc' = [epPc EXCEPT !["bootstrap"] = "gen_done"]
  /\ UNCHANGED <<prompts, results, epHttp, epErr, bootResult, bootIdx>>
  /\ UNCHANGED serpVars
  /\ UNCHANGED epLoc
  /\ UNCHANGED repVars
  /\ UNCHANGED envVars

\* runSerpChecksForProfile is called
BootstrapSerpStart ==
  /\ epPc["bootstrap"] = "gen_done"
  /\ rpc[BootRequest] = "idle"
  /\ rkind' = [rkind EXCEPT ![BootRequest] = "batch"]
  /\ rpc' = [rpc EXCEPT ![BootRequest] = "read"]
  /\ epPc' = [epPc EXCEPT !["bootstrap"] = "serp"]
  /\ UNCHANGED <<profile, prompts, results, snap, midx, wpc, pnext, pexec, doneCnt, wlog>>
  /\ UNCHANGED <<epHttp, epErr, bootResult, bootIdx>>
  /\ UNCHANGED epLoc
  /\ UNCHANGED repVars
  /\ UNCHANGED envVars

\* runSerpChecksForProfile returned or threw
BootstrapRespond ==
  /\ epPc["bootstrap"] = "serp"
  /\ rpc[BootRequest] \in {"done", "failed"}
  /\ IF rpc[BootRequest] = "done"
     THEN /\ epPc' = [epPc EXCEPT !["bootstrap"] = "done"]
          /\ epHttp' = [epHttp EXCEPT !["bootstrap"] = 200]
          /\ UNCHANGED <<profile, epErr>>
     ELSE BootstrapCatch(ProfileNotFoundMsg)
  /\ UNCHANGED <<prompts, results, bootResult, bootIdx>>
  /\ UNCHANGED serpVars
  /\ UNCHANGED epLoc
  /\ UNCHANGED repVars
  /\ UNCHANGED envVars

InitBoot ==
  /\ profile = CreatedProfile
  /\ prompts = {}
  /\ results = <<>>
  /\ InitLocals
  /\ InitReportIdle

NextBoot ==
  \/ \E keySet \in BOOLEAN : BootstrapStart(keySet)
  \/ BootstrapGet
  \/ \E out \in {"ok", "fail"} : BootstrapScrape(out)
  \/ \E keySet \in BOOLEAN : BootstrapGenStart(keySet)
  \/ BootstrapGenGet
  \/ \E msg \in GenFailures : BootstrapGenRespond(TRUE, msg, {})
  \/ \E res \in GenResults : BootstrapGenRespond(FALSE, "", res)
  \/ BootstrapPersist
  \/ BootstrapGenDone
  \/ BootstrapSerpStart
  \/ BatchReadPrompts(BootRequest)
  \/ BatchMark(BootRequest)
  \/ BatchPoolStart(BootRequest)
  \/ BatchFinal(BootRequest)
  \/ BatchNet(BootRequest)
  \/ BootstrapRespond

BootSpec == InitBoot /\ [][NextBoot]_vars

\* the program's own steps (continuations the event loop runs once the
\* database has answered); request arrival and search responses are the
\* environment's
ProgStep(r) ==
  \/ BatchReadPrompts(r)
  \/ BatchMark(r)
  \/ BatchPoolStart(r)
  \/ BatchFinal(r)
  \/ SingleReadPrompt(r)
  \/ SingleLookupStart(r)

FairSpec == Spec /\ \A r \in Requests : WF_vars(ProgStep(r))

\* ------------------------------------------------------------ vocabulary
StatusOf(res, pid, e) == EngineResult(res, pid, e).status

Statuses(lg) == [k \in 1..Len(lg) |-> lg[k].status]

LastOf(lg) == lg[Len(lg)]

Workers(r) == DOMAIN wlog[r]

InFlight(r) == {i \in DOMAIN wpc[r] : wpc[r][i] \in {"g", "gi", "b"}}

GoogleInFlight(r, i) == wpc[r][i] \in {"g", "gi"}

BingIssued(r, i) == wpc[r][i] \in {"b", "fin"}

LookupIssued(r) == \E i \in DOMAIN wpc[r] : wpc[r][i] # "idle"

Quiet(r) == rpc[r] \in {"idle", "done", "failed"}

FailMsgs(e) == IF e = "google" THEN {GoogleFailMsg, FetchFailMsg} ELSE {BingFailMsg}

\* ------------------------------------------------------------------- C1
\* C1 (as stated): once the stored status of a (prompt, engine) pair is
\* 'done' or 'error' it never changes again, across batch and
\* single-prompt runs.
C1_NeverReverts ==
  [][\A p \in DOMAIN results : \A e \in Engines :
       results[p][e].status \in Terminal
         => StatusOf(results', p, e) = results[p][e].status]_vars

C1_RunLog ==
  \A r \in Requests : \A i \in Workers(r) : \A e \in Engines :
    LET st == Statuses(wlog[r][i][e])
    IN /\ Len(st) <= 2
       /\ Len(st) >= 1 => st[1] = "checking"
       /\ Len(st) = 2 => st[2] \in Terminal
       /\ (rpc[r] = "done" => Len(st) = 2)

C1_Created ==
  \A p \in DOMAIN results' : \A e \in Engines :
    StatusOf(results, p, e) = "absent" => StatusOf(results', p, e) \in {"absent", "checking"}

\* C1 (amended): within one run every (prompt, engine) pair the run handles
\* is written 'checking' first and then exactly once 'done' or 'error' by
\* that run, never 'checking' again after its terminal write; a pair that
\* has no result yet is created as 'checking'.
C1_RunLifecycle == [](C1_RunLog) /\ [][C1_Created]_vars

\* two runs have both completed the same prompt: the second restarted it
C1_Witness ==
  /\ rpc["reqA"] = "done" /\ rpc["reqB"] = "done"
  /\ \E i \in Workers("reqA") : snap["reqA"][i] = snap["reqB"][1]

\* ------------------------------------------------------------------- C2
\* C2: in a batch run, once any search lookup of the batch has been issued,
\* 'checking' has already been written for both engines of every prompt of
\* the batch.
C2_CheckingBeforeLookup ==
  \A r \in BatchRequests :
    LookupIssued(r) =>
      \A i \in 1..Len(snap[r]) : \A e \in Engines :
        /\ Len(wlog[r][i][e]) >= 1
        /\ wlog[r][i][e][1].status = "checking"

\* a batch over two prompts whose first lookup is in flight, none answered
C2_Witness ==
  /\ rpc["reqA"] = "pool" /\ Len(snap["reqA"]) >= 2
  /\ \A i \in 1..Len(snap["reqA"]) : wpc["reqA"][i] = "g"

\* ------------------------------------------------------------------- C3
\* C3: every (prompt, engine) pair that is 'checking' eventually becomes
\* 'done' or 'error'.
C3_EventuallyTerminal ==
  \A p \in PromptUniverse(MaxPrompts) : \A e \in Engines :
    (StatusOf(results, p, e) = "checking") ~> (StatusOf(results, p, e) \in Terminal)

\* ------------------------------------------------------------------- C4
C4_GoogleFailureStep(r, i) ==
  (/\ GoogleInFlight(r, i)
   /\ Len(wlog'[r][i]["google"]) > Len(wlog[r][i]["google"])
   /\ LastOf(wlog'[r][i]["google"]).status = "error")
  => /\ wpc'[r][i] = "b"
     /\ StatusOf(results', snap[r][i], "google") = "error"
     /\ EngineResult(results', snap[r][i], "bing") = EngineResult(results, snap[r][i], "bing")

C4_BingFailureStep(r, i) ==
  (/\ wpc[r][i] = "b"
   /\ Len(wlog'[r][i]["bing"]) > Len(wlog[r][i]["bing"])
   /\ LastOf(wlog'[r][i]["bing"]).status = "error")
  => /\ StatusOf(results', snap[r][i], "bing") = "error"
     /\ EngineResult(results', snap[r][i], "google") = EngineResult(results, snap[r][i], "google")

C4_BothStored ==
  \A r \in Requests : \A i \in DOMAIN wpc[r] :
    wpc[r][i] = "fin" =>
      \A e \in Engines : Len(wlog[r][i][e]) = 2 /\ LastOf(wlog[r][i][e]).status \in Terminal

\* C4: in the batch run and in the single-prompt run, a failed google lookup
\* (search or immersive follow-up) stores 'error' for google only, leaves
\* the bing result untouched and the bing lookup is issued next; a failed
\* bing lookup stores 'error' for bing and leaves the stored google result
\* as it was; a finished worker has stored a terminal result for both.
C4_EngineIsolation ==
  /\ [](C4_BothStored)
  /\ [][\A r \in Requests : \A i \in DOMAIN wpc[r] :
          C4_GoogleFailureStep(r, i) /\ C4_BingFailureStep(r, i)]_vars

\* a finished worker whose google lookup failed and whose bing result is done
C4_Witness ==
  \E r \in Requests : \E i \in DOMAIN wpc[r] :
    /\ wpc[r][i] = "fin"
    /\ LastOf(wlog[r][i]["google"]).status = "error"
    /\ LastOf(wlog[r][i]["bing"]).status = "done"
    /\ StatusOf(results, snap[r][i], "google") = "error"
    /\ StatusOf(results, snap[r][i], "bing") = "done"

\* ------------------------------------------------------------------- C5
\* C5: the step of a batch run that writes status 'done' / progress 100,
\* taken while no other run is in progress, leaves every prompt the run
\* read at its start with a terminal status on google and on bing.
C5_DoneMeansAllTerminal ==
  [][\A r \in BatchRequests :
       (/\ rpc[r] = "pool" /\ rpc'[r] = "done"
        /\ \A o \in Requests \ {r} : Quiet(o))
       => /\ profile' = [status |-> "done", progress |-> PROGRESS_DONE]
          /\ \A i \in 1..Len(snap[r]) : \A e \in Engines :
               StatusOf(results', snap[r][i], e) \in Terminal]_vars

\* a completed batch over two prompts with an error among the results
C5_Witness ==
  /\ rpc["reqA"] = "done" /\ Len(snap["reqA"]) >= 2
  /\ Quiet("reqB")
  /\ profile = [status |-> "done", progress |-> PROGRESS_DONE]
  /\ \E i \in 1..Len(snap["reqA"]) : StatusOf(results, snap["reqA"][i], "bing") = "error"

\* ------------------------------------------------------------------- C6
\* C6: at most 4 prompt workers of a batch are in flight at any moment,
\* whatever the number of prompts.
C6_AtMostFourInFlight ==
  \A r \in PoolRequests : Cardinality(InFlight(r)) <= POOL_LIMIT

\* more than 4 prompts: the 5th worker has started, 4 are in flight, so one
\* of the first four has finished
C6_Witness ==
  /\ Len(snap["reqA"]) > POOL_LIMIT
  /\ Cardinality(InFlight("reqA")) = POOL_LIMIT
  /\ wpc["reqA"][POOL_LIMIT + 1] # "idle"
  /\ \E i \in 1..POOL_LIMIT : wpc["reqA"][i] = "fin"

\* ------------------------------------------------------------------- C7
\* C7 (as stated): the two engines of a prompt run concurrently: while the
\* google lookup of a prompt is in flight its bing lookup has been issued.
C7_EnginesConcurrent ==
  \A r \in Requests : \A i \in DOMAIN wpc[r] :
    GoogleInFlight(r, i) => BingIssued(r, i)

\* C7 (amended): within one prompt the bing lookup is issued only after the
\* google lookup has completed and its terminal result has been written.
C7_BingAfterGoogle ==
  \A r \in Requests : \A i \in DOMAIN wpc[r] :
    BingIssued(r, i) =>
      /\ Len(wlog[r][i]["google"]) = 2
      /\ LastOf(wlog[r][i]["google"]).status \in Terminal

\* the bing lookup of a prompt is in flight
C7_Witness ==
  \E r \in Requests : \E i \in DOMAIN wpc[r] : wpc[r][i] = "b"

\* ------------------------------------------------------------------- C8
\* C8: a failed lookup never aborts the batch: while the pool runs, some
\* worker is in flight until every prompt has finished; every error a batch
\* stores carries the message of the failure; a completed batch has looked
\* up every prompt and stored a terminal result for both engines of each.
C8_FailureDoesNotAbort ==
  \A r \in BatchRequests :
    /\ rpc[r] # "failed"
    /\ (rpc[r] = "pool" /\ InFlight(r) = {}) => PoolSettled(r)
    /\ \A i \in Workers(r) : \A e \in Engines : \A k \in 1..Len(wlog[r][i][e]) :
         wlog[r][i][e][k].status = "error" => wlog[r][i][e][k].error \in FailMsgs(e)
    /\ rpc[r] = "done" =>
         \A i \in 1..Len(snap[r]) : \A e \in Engines :
           Len(wlog[r][i][e]) = 2 /\ LastOf(wlog[r][i][e]).status \in Terminal

\* a completed batch in which one prompt failed on google and a sibling
\* prompt is done on both engines
C8_Witness ==
  /\ rpc["reqA"] = "done" /\ Len(snap["reqA"]) >= 2
  /\ LastOf(wlog["reqA"][1]["google"]) = ErrorValue(GoogleFailMsg)
  /\ \A e \in Engines : LastOf(wlog["reqA"][2][e]).status = "done"

\* --------------------------------------------------- report vocabulary
\* the text parses neither after stripping the code fences nor after
\* extracting the outermost {...} span
Unparseable(t) ==
  /\ ~IsJson(StripCodeFences(t))
  /\ ~IsJson(ExtractJsonBlock(StripCodeFences(t)))

IdsOfCategory(c) == {p \in prompts : p.cat = c}

Range(s) == {s[k] : k \in 1..Len(s)}

\* the persisted report has one cluster per category, each holding exactly
\* the prompt ids of its category, and the canned insights
IsFallbackReport ==
  /\ report.exists
  /\ Len(report.clusters) = 4
  /\ \A k \in 1..4 :
       /\ Range(report.clusters[k].items) = IdsOfCategory(CatOrder[k])
       /\ Len(report.clusters[k].items) = Cardinality(IdsOfCategory(CatOrder[k]))
       /\ report.clusters[k].title = FallbackTitle(CatOrder[k])
  /\ report.insights = FallbackInsights

\* ------------------------------------------------------------------- C9
\* C9: the overall-report request never fails because of the narrative
\* step: whatever the collaborator answered (an exception, empty text,
\* unparseable text, parseable JSON of any shape), the finished request
\* has persisted a report at reports/overall and answered success.
C9_NarrativeNeverFails ==
  \A q \in ReportRequests :
    repPc[q] = "done" => (report.exists /\ repHttp[q] = 200)

LocalScore(rp, pid) ==
  LET k == CHOOSE j \in 1..Len(rp.opportunities) : rp.opportunities[j].promptId = pid
  IN rp.opportunities[k].opportunityScore

RECURSIVE SumLocalScores(_, _)
SumLocalScores(rp, ids) ==
  IF ids = <<>> THEN 0
  ELSE LocalScore(rp, ids[1]) + SumLocalScores(rp, SubSeq(ids, 2, Len(ids)))

\* C11: in every persisted overall report each cluster lists only prompt
\* ids of the prompt set the run scored (ids the collaborator invented are
\* dropped) and its opportunitySum is the sum of the locally computed
\* opportunityScore of the ids it kept, whatever the collaborator sent.
C11_ClustersValidated ==
  \A q \in ReportRequests :
    repBuilt[q].exists =>
      \A k \in 1..Len(repBuilt[q].clusters) :
        LET cl == repBuilt[q].clusters[k]
        IN /\ Range(cl.items) \subseteq Range(repPrompts[q])
           /\ cl.opportunitySum = SumLocalScores(repBuilt[q], cl.items)

\* the collaborator returned a cluster that lists a scored prompt and an
\* unknown id together with a sum of its own; the persisted cluster keeps
\* the scored prompt only and carries that prompt's positive score
C11_Witness ==
  /\ repHttp["repA"] = 200
  /\ llmResp["repA"].body = Payloads[1]
  /\ report = repBuilt["repA"]
  /\ report.clusters[1].items = <<PromptAt(1)>>
  /\ report.clusters[1].opportunitySum > 0
  /\ report.clusters[1].opportunitySum = report.opportunities[1].opportunityScore

\* ------------------------------------------------------------------ C12
ReferencedIds(rp) ==
  {rp.opportunities[k].promptId : k \in 1..Len(rp.opportunities)}
  \cup {rp.nextActions[k].promptId : k \in 1..Len(rp.nextActions)}

Persists(q) == repHttp[q] = 0 /\ repHttp'[q] = 200

\* C12: whenever a run persists an overall report, every prompt id its
\* opportunities and nextActions reference is in the profile's prompt set
\* at that moment, also when prompts were added or deleted after the run
\* read the prompts.
C12_ReferencedPromptsExist ==
  [][\A q \in ReportRequests :
       Persists(q) => ReferencedIds(report') \subseteq prompts']_vars

\* ------------------------------------------------------------------ C13
\* C13: every write of reports/overall stores the whole report object of
\* the run that writes, so after any interleaving of two runs the stored
\* report is the report one of them assembled, with nothing of a prior
\* report and no mix; it lists the prompts its run read, once each; and
\* two runs that read the same prompts store the same metrics,
\* opportunities and nextActions.
C13_WholeReportOfOneRun ==
  /\ [][report' # report =>
          \E q \in ReportRequests : Persists(q) /\ report' = repBuilt'[q]]_vars
  /\ [](\A q \in ReportRequests :
          repBuilt[q].exists =>
            /\ Len(repBuilt[q].opportunities) = Len(repPrompts[q])
            /\ repBuilt[q].totalPrompts = Len(repPrompts[q])
            /\ \A k \in 1..Len(repPrompts[q]) :
                 repBuilt[q].opportunities[k].promptId = repPrompts[q][k])
  /\ [](\A q1, q2 \in ReportRequests :
          (/\ repBuilt[q1].exists /\ repBuilt[q2].exists
           /\ repPrompts[q1] = repPrompts[q2])
          => /\ repBuilt[q1].metrics = repBuilt[q2].metrics
             /\ repBuilt[q1].opportunities = repBuilt[q2].opportunities
             /\ repBuilt[q1].nextActions = repBuilt[q2].nextActions)

\* two runs over a profile that held a stale report both persisted, with
\* different narratives; the stored report is the one of the run that
\* wrote last and nothing of the stale report is left
C13_Witness ==
  /\ repHttp["repA"] = 200 /\ repHttp["repB"] = 200
  /\ repPrompts["repA"] # <<>>
  /\ repBuilt["repA"].insights # repBuilt["repB"].insights
  /\ report = repBuilt["repA"]
  /\ report.insights # StaleReport.insights
  /\ report.insights # FallbackInsights

\* ------------------------------------------------------------------ C14
\* C14: an overall report is computed and persisted only when every prompt
\* of the profile is 'done' or 'error' on both engines when the results
\* are read; a request made while some pair is 'checking' or has no result
\* produces no report.
C14_ReportOnlyWhenTerminal ==
  \A q \in ReportRequests :
    (~AllTerminal(prompts, results) /\ repPc[q] = "done")
      => (~repBuilt[q].exists /\ ~report.exists)

\* ---------------------------------------------------- score vocabulary
\* the signals the runs computed
Signals == UNION {Range(repComputed[q]) : q \in ReportRequests}

\* the stored result the run scored for prompt pid
Stored(pid, e) == EngineResult(results, pid, e)

\* ------------------------------------------------------------------ C15
\* C15: for every prompt and every stored result (missing, partial,
\* 'checking' and 'error' results included) the computed signal has
\* 0 <= missingPresence <= 2, 0 <= competitorPressure <= 1 and
\* opportunityScore >= 0 (tenths, quarters and thousandths here).
C15_SignalRanges ==
  \A c \in Signals :
    /\ 0 <= c.missingPresence /\ c.missingPresence <= 20
    /\ 0 <= c.competitorPressure /\ c.competitorPressure <= 4
    /\ c.opportunityScore >= 0

\* a prompt present on both engines was scored, where 2 - 3.2 is floored
C15_Witness ==
  \E c \in Signals :
    c.googleHas /\ c.bingHas /\ c.presenceScore = 32 /\ c.missingPresence = 0

\* ------------------------------------------------------------------ C16
\* the stored engine result says the company was found
StoredHas(pid, e) ==
  "hasCompany" \in DOMAIN Stored(pid, e) /\ Stored(pid, e).hasCompany = TRUE

\* C16: for every prompt missingPresence = max(0, 2 - (2*googleHas +
\* 1.2*bingHas)): 0 when google has the company, with or without bing,
\* 0.8 when only bing has it, 2 when neither has it (in tenths here).
C16_MissingPresence ==
  \A c \in Signals :
    c.missingPresence =
      IF StoredHas(c.promptId, "google") THEN 0
      ELSE IF StoredHas(c.promptId, "bing") THEN 8
      ELSE 20

\* a prompt only bing has the company for was scored 0.8
C16_Witness ==
  \E c \in Signals :
    /\ ~StoredHas(c.promptId, "google") /\ StoredHas(c.promptId, "bing")
    /\ c.missingPresence = 8

\* ------------------------------------------------------------------ C17
StoredHits(pid, e) ==
  IF "competitorsHit" \in DOMAIN Stored(pid, e)
  THEN Range(Stored(pid, e).competitorsHit) ELSE {}

DistinctHits(pid) == StoredHits(pid, "google") \cup StoredHits(pid, "bing")

\* C17: for every prompt competitorPressure = min(1, hitCount / 4), where
\* hitCount is the number of distinct competitor domains hit on google or
\* bing, a domain hit on both counted once: 0 hits give 0, 4 hits give 1,
\* 6 hits give 1 (in quarters here).
C17_CompetitorPressure ==
  \A c \in Signals :
    LET n == Cardinality(DistinctHits(c.promptId))
    IN /\ c.competitorHitsCount = n
       /\ c.competitorPressure = (IF n >= 4 THEN 4 ELSE n)
       /\ n = 0 => c.competitorPressure = 0
       /\ n \in {4, 6} => c.competitorPressure = 4

\* a prompt with a domain hit on both engines and six distinct domains in
\* all was scored 1
C17_Witness ==
  \E c \in Signals :
    /\ StoredHits(c.promptId, "google") \cap StoredHits(c.promptId, "bing") # {}
    /\ c.competitorHitsCount = 6
    /\ c.competitorPressure = 4

\* ------------------------------------------------------------------ C18
MissingPresenceValues == {0, 8, 20}
CompetitorPressureValues == 0..4
CategoryWeightValues == {CAT_WEIGHT(CatOrder[k]) : k \in 1..4}

\* C18: the stored opportunityScore is monotonically non-decreasing in
\* missingPresence, in competitorPressure and in categoryWeight, the other
\* two held fixed, over all the values the three can take.
C18_ScoreMonotone ==
  \A c \in Signals :
    /\ c.missingPresence \in MissingPresenceValues
    /\ c.competitorPressure \in CompetitorPressureValues
    /\ c.categoryWeight \in CategoryWeightValues
    /\ \A m \in MissingPresenceValues :
         /\ m >= c.missingPresence =>
              OpportunityScore(m, c.competitorPressure, c.categoryWeight) >= c.opportunityScore
         /\ m <= c.missingPresence =>
              OpportunityScore(m, c.competitorPressure, c.categoryWeight) <= c.opportunityScore
    /\ \A h \in CompetitorPressureValues :
         /\ h >= c.competitorPressure =>
              OpportunityScore(c.missingPresence, h, c.categoryWeight) >= c.opportunityScore
         /\ h <= c.competitorPressure =>
              OpportunityScore(c.missingPresence, h, c.categoryWeight) <= c.opportunityScore
    /\ \A w \in CategoryWeightValues :
         /\ w >= c.categoryWeight =>
              OpportunityScore(c.missingPresence, c.competitorPressure, w) >= c.opportunityScore
         /\ w <= c.categoryWeight =>
              OpportunityScore(c.missingPresence, c.competitorPressure, w) <= c.opportunityScore

\* a prompt of weight 1.3 only bing has the company for, with one
\* competitor hit, was scored 0.8 * 1.15 * 1.3 = 1.196
C18_Witness ==
  \E c \in Signals :
    /\ c.missingPresence = 8 /\ c.competitorPressure = 1 /\ c.categoryWeight = 13
    /\ c.opportunityScore = 1196

\* ------------------------------------------------------------------ C19
\* C19: for each of the four categories the funnel row of the report has
\* presentPct + competitorOnlyPct + whiteSpacePct = 1, for every prompt set
\* and result set, a category without prompts included.
C19_FunnelRowsSumToOne ==
  \A q \in ReportRequests :
    repBuilt[q].exists =>
      \A k \in 1..4 :
        LET row == repBuilt[q].funnelSov[k]
        IN /\ row.presentPct.den = row.competitorOnlyPct.den
           /\ row.presentPct.den = row.whiteSpacePct.den
           /\ row.presentPct.num + row.competitorOnlyPct.num + row.whiteSpacePct.num
                = row.presentPct.den

\* ------------------------------------------------------------------ C20
\* C20: every endpoint (bootstrap, add prompt, generate-more, SERP run,
\* per-prompt report, overall report) answers 404 when the profile does
\* not exist, and then writes nothing under that profile.
C20_MissingProfileIs404 ==
  [][ ~ProfileExists(profile) =>
        \A ep \in AllEndpoints :
          (HttpOf(ep) = 0 /\ HttpOf(ep)' # 0) =>
            /\ HttpOf(ep)' = 404
            /\ UNCHANGED <<profile, prompts, results, report>> ]_vars

\* ------------------------------------------------------------------ C21
ScrapeOrGenErrors == {ScrapeFailMsg, NoOpenAiKey, OpenAiFailMsg, NoTextMsg, ParseFailMsg}

NoChecking(res) ==
  \A p \in DOMAIN res : \A e \in Engines : res[p][e].status # "checking"

\* C21: once the scrape or the prompt generation of a bootstrap run has
\* failed, the profile has status 'error' and the error's message as
\* lastError, the run's SERP batch is never entered (no lookup issued, no
\* result marked 'checking'), and the status stays 'error': the run writes
\* neither 'serp_check' nor 'done' afterwards.
C21_BootstrapFailureEndsInError ==
  epErr["bootstrap"] \in ScrapeOrGenErrors =>
    /\ profile.status = "error"
    /\ "lastError" \in DOMAIN profile /\ profile.lastError = epErr["bootstrap"]
    /\ epPc["bootstrap"] = "done" /\ epHttp["bootstrap"] = 500
    /\ rpc[BootRequest] = "idle" /\ ~LookupIssued(BootRequest)
    /\ wlog[BootRequest] = <<>>
    /\ NoChecking(results)

\* the collaborator gave no text after the scrape had succeeded
C21_Witness ==
  /\ epErr["bootstrap"] = NoTextMsg
  /\ profile.status = "error" /\ profile.progress = 55
  /\ profile.lastError = NoTextMsg

\* ------------------------------------------------------------------ C22
\* the request stores a prompt in this step
KeyWritten(ep) ==
  /\ epLoc[ep].left > 0
  /\ epLoc'[ep].left < epLoc[ep].left

\* C22: every prompt an add-prompt or generate-more request stores goes
\* under a key strictly greater than every key its category holds at that
\* moment, also when two such requests on one category overlap.
C22_KeyAboveExisting ==
  [][\A ep \in AddRequests \cup {"generate_more"} :
       KeyWritten(ep) =>
         \A p \in prompts : p.cat = epLoc[ep].cat => p.key < epLoc[ep].next]_vars

\* ------------------------------------------------------------------ C23
\* request r, a single-prompt run, takes this step
SingleActs(r) ==
  /\ rkind'[r] = "single"
  /\ <<rpc[r], wpc[r], wlog[r]>> # <<rpc'[r], wpc'[r], wlog'[r]>>

\* C23: a step of a single-prompt run leaves the profile's status and
\* progress as they are and changes no result but the google and bing
\* results of the run's own prompt.
C23_SingleRunFrame ==
  [][\A r \in Requests :
       SingleActs(r) =>
         /\ profile' = profile
         /\ prompts' = prompts
         /\ \A p \in (DOMAIN results) \cup (DOMAIN results') :
              p # snap'[r][1] => p \in DOMAIN results /\ p \in DOMAIN results'
                                 /\ results'[p] = results[p]]_vars

\* a single-prompt run has finished on a profile that holds the results of
\* another prompt
C23_Witness ==
  \E r \in SingleRequests :
    /\ rkind[r] = "single" /\ rpc[r] = "done"
    /\ \E p \in DOMAIN results : p # snap[r][1] /\ results[p]["google"].status = "done"
    /\ results[snap[r][1]]["bing"].status \in Terminal

\* ------------------------------------------------------------------ C24
\* the place of a prompt in the computed array
PosIn(computed, pid) == CHOOSE k \in 1..Len(computed) : computed[k].promptId = pid

Min(a, b) == IF a < b THEN a ELSE b

\* entry x of the computed array ranks before entry y
RanksBefore(computed, x, y) ==
  \/ computed[x].opportunityScore > computed[y].opportunityScore
  \/ /\ computed[x].opportunityScore = computed[y].opportunityScore
     /\ x < y

\* C24: nextActions is the first min(10, n) entries, ranked 1..k, of the
\* ranking of all n prompts by opportunityScore descending with ties in
\* original prompt order, and topMoneyPrompts is its first min(5, n)
\* entries; scores do not increase along either list.
C24_OneStableRanking ==
  \A q \in ReportRequests :
    repBuilt[q].exists =>
      LET computed == repComputed[q]
          na == repBuilt[q].nextActions
          top == repBuilt[q].metrics.topMoneyPrompts
          pos == [k \in 1..Len(na) |-> PosIn(computed, na[k].promptId)]
      IN /\ Len(na) = Min(10, Len(computed))
         /\ Len(top) = Min(5, Len(computed))
         /\ \A k \in 1..Len(na) :
              /\ na[k].rank = k
              /\ na[k].opportunityScore = computed[pos[k]].opportunityScore
         /\ \A k \in 1..Len(top) :
              /\ top[k].promptId = na[k].promptId
              /\ top[k].opportunityScore = na[k].opportunityScore
         /\ \A j, k \in 1..Len(na) :
              j < k => /\ na[j].opportunityScore >= na[k].opportunityScore
                       /\ RanksBefore(computed, pos[j], pos[k])
         /\ \A x \in 1..Len(computed) :
              (\A k \in 1..Len(na) : pos[k] # x) =>
                \A k \in 1..Len(na) : RanksBefore(computed, pos[k], x)

\* eleven prompts: one is left out of nextActions, and the list holds two
\* entries of equal score
C24_Witness ==
  \E q \in ReportRequests :
    /\ repBuilt[q].exists
    /\ Len(repComputed[q]) = 11
    /\ Len(repBuilt[q].nextActions) = 10
    /\ Len(repBuilt[q].metrics.topMoneyPrompts) = 5
    /\ \E k \in 1..4 :
         /\ repBuilt[q].nextActions[k].opportunityScore
              = repBuilt[q].nextActions[k + 1].opportunityScore
         /\ repBuilt[q].nextActions[k].opportunityScore > 0

\* ------------------------------------------------------------------ C25
\* request r, a batch run, counts one more finished prompt in this step
PromptFinishes(r) == rkind[r] = "batch" /\ doneCnt'[r] = doneCnt[r] + 1

\* m is 25 * k / n rounded to the nearest integer, halves upwards
IsRounded(m, k, n) == 2 * n * m - n <= 50 * k /\ 50 * k < 2 * n * m + n

\* C25: the progress a batch run writes when its k-th of N prompts finishes
\* is min(97, 72 + round(25 * k / N)): it lies in 72..97, is not below the
\* value written before it, and is 97 after the last prompt; status 'done'
\* with progress 100 is written only when all N have finished.
C25_ProgressValues ==
  [][\A r \in Requests :
       /\ PromptFinishes(r) =>
            LET k == doneCnt'[r]
                n == Len(snap[r])
                v == profile'.progress
            IN /\ v \in 72..97
               /\ v >= profile.progress
               /\ v < 97 => IsRounded(v - 72, k, n)
               /\ v = 97 => \E m \in 25..26 : IsRounded(m, k, n)
               /\ k = n => v = 97
               /\ profile'.status = "serp_check"
       /\ (rkind[r] = "batch" /\ rpc[r] = "pool" /\ rpc'[r] = "done") =>
            /\ doneCnt[r] = Len(snap[r])
            /\ profile'.status = "done" /\ profile'.progress = 100
            /\ profile.progress \in {72, 97}]_vars

\* the second of three prompts has finished: 72 + round(16.67) = 89
C25_Witness ==
  \E r \in PoolRequests :
    /\ rpc[r] = "pool" /\ Len(snap[r]) = 3 /\ doneCnt[r] = 2
    /\ profile.progress = 89

\* ------------------------------------------------------------------ C27
\* the engine result says nothing about the company
LacksPresence(er) ==
  er.status \in {"absent", "checking", "error"} \/ "hasCompany" \notin DOMAIN er

LacksHits(er) ==
  er.status \in {"absent", "checking", "error"} \/ "competitorsHit" \notin DOMAIN er

\* C27: the scoring step scores every prompt, whatever its results hold: an
\* engine whose result is missing, 'checking', 'error' or without
\* hasCompany counts as company absent, one without competitorsHit adds no
\* competitor domain, and a prompt with nothing on both engines gets
\* missingPresence 2, competitorPressure 0, opportunityScore
\* 2 * categoryWeight and is counted as white-space.
C27_PartialDataScored ==
  \A q \in ReportRequests :
    repPc[q] \in {"llm", "done"} =>
      /\ Len(repComputed[q]) = Len(repPrompts[q])
      /\ \A k \in 1..Len(repComputed[q]) :
           LET c == repComputed[q][k]
               g == EngineResult(results, repPrompts[q][k], "google")
               b == EngineResult(results, repPrompts[q][k], "bing")
           IN /\ c.promptId = repPrompts[q][k]
              /\ LacksPresence(g) => ~c.googleHas
              /\ LacksPresence(b) => ~c.bingHas
              /\ (LacksHits(g) /\ LacksHits(b)) => c.competitorDomains = <<>>
              /\ (LacksPresence(g) /\ LacksPresence(b) /\ LacksHits(g) /\ LacksHits(b)) =>
                   /\ c.missingPresence = 20
                   /\ c.competitorPressure = 0
                   /\ c.opportunityScore = 200 * c.categoryWeight
                   /\ IsWhiteSpace(c)
                   /\ (repBuilt[q].exists /\ Len(repComputed[q]) = 1) =>
                        /\ repBuilt[q].metrics.whiteSpacePct = Ratio(1, 1)
                        /\ repBuilt[q].metrics.sov = Ratio(0, 1)

\* a solution_comparing prompt whose google lookup failed and whose bing
\* lookup is still running is reported with score 3.4 as white-space
C27_Witness ==
  \E q \in ReportRequests :
    /\ repBuilt[q].exists /\ repHttp[q] = 200
    /\ Len(repComputed[q]) = 1
    /\ repComputed[q][1].category = "solution_comparing"
    /\ EngineResult(results, repPrompts[q][1], "google").status = "error"
    /\ EngineResult(results, repPrompts[q][1], "bing").status = "checking"
    /\ repComputed[q][1].opportunityScore = 3400
    /\ repBuilt[q].metrics.whiteSpacePct = Ratio(1, 1)

\* ------------------------------------------------------------------ C28
\* C28: whatever the interleaving of a batch run and a single-prompt run on
\* the profile, the profile does not have status 'done' with progress 100
\* while a (prompt, engine) pair of the profile has status 'checking'.
C28_NoDoneWhileChecking ==
  profile = [status |-> "done", progress |-> PROGRESS_DONE] =>
    \A p \in prompts : \A e \in Engines : StatusOf(results, p, e) # "checking"

\* ------------------------------------------------------------------ C26
\* h is d itself or a name under d: the last characters of h are a dot
\* followed by d
HostUnder(h, d) ==
  \/ h = d
  \/ /\ Len(h) > Len(d)
     /\ h[Len(h) - Len(d)] = Dot
     /\ \A k \in 1..Len(d) : h[Len(h) - Len(d) + k] = d[k]

\* the hosts of the links that parse
ParsedHosts(links) == {links[k].host : k \in {j \in 1..Len(links) : links[j].ok}}

FirstIndex(s, x) == CHOOSE k \in 1..Len(s) : s[k] = x /\ \A j \in 1..(k - 1) : s[j] # x

\* hits is exactly the competitors matched by some host, once each, in
\* the order of the competitor list
IsMatchedList(hits, hosts, competitors) ==
  /\ {hits[k] : k \in 1..Len(hits)} =
       {competitors[k] : k \in {j \in 1..Len(competitors) :
                                  \E h \in hosts : HostUnder(h, competitors[j])}}
  /\ \A i \in 1..Len(hits) : \A j \in 1..Len(hits) :
       i < j => FirstIndex(competitors, hits[i]) < FirstIndex(competitors, hits[j])

\* C26: a finished lookup stores hasCompany = true exactly when a result
\* host is the company domain or ends with "." + company domain, and
\* competitorsHit = the competitor domains matched by some host under the
\* same rule, once each and in the order of the competitor list, for the
\* organic links (analyzeTop10, both engines) and for the shopping sellers
\* (analyzePresence); a host that merely ends with the domain's characters
\* matches nothing.
C26_PresenceRule ==
  \A p \in DOMAIN results :
    /\ \A e \in Engines :
         LET er == results[p][e]
             hosts == ParsedHosts(IF e = "google" THEN web["reqB"].organic ELSE web["reqB"].bing)
         IN er.status = "done" =>
              /\ er.hasCompany <=> \E h \in hosts : HostUnder(h, site.company)
              /\ IsMatchedList(HitsOf(er), hosts, site.competitors)
    /\ LET g == results[p]["google"]
       IN g.status = "done" =>
            /\ g.shopping.hasCompany <=>
                 \E h \in ParsedHosts(web["reqB"].shopping) : HostUnder(h, site.company)
            /\ IsMatchedList(HitsOf(g.shopping), ParsedHosts(web["reqB"].shopping),
                             site.competitors)

\* the results ba and a.b for company a and the competitor list b, b: ba
\* is not under a, a.b is under b, and b is reported once
C26_Witness ==
  /\ site = [company |-> <<"a">>, competitors |-> << <<"b">>, <<"b">> >>]
  /\ web["reqB"].organic = <<Link(<<"b", "a">>), Link(<<"a", ".", "b">>)>>
  /\ PromptAt(1) \in DOMAIN results
  /\ results[PromptAt(1)]["google"].status = "done"
  /\ ~results[PromptAt(1)]["google"].hasCompany
  /\ results[PromptAt(1)]["google"].competitorsHit = << <<"b">> >>

\* ------------------------------------------------------------------ C29
\* the google lookup of worker i of run r has ended after the search
\* itself answered
GoogleAnswered(r, i) ==
  /\ i \in DOMAIN wpc[r] /\ wpc[r][i] \in {"b", "fin"}
  /\ wlog[r][i]["google"] # <<>>
  /\ LastOf(wlog[r][i]["google"]) # ErrorValue(GoogleFailMsg)

\* the score of a prompt whose google result is g, bing left aside
GoogleScore(p, g) ==
  ComputeSignal(p, (p :> [e \in Engines |-> IF e = "google" THEN g ELSE Absent])).opportunityScore

\* C29: two runs that received the same organic results for a prompt,
\* whatever shopping and immersive data came with them, stored the same
\* top-level hasCompany and competitorsHit in the google result, and the
\* prompt scores the same with either.
C29_OrganicOnly ==
  \A i \in DOMAIN snap["reqA"] : \A j \in DOMAIN snap["reqB"] :
    (/\ snap["reqA"][i] = snap["reqB"][j]
     /\ web["reqA"].organic = web["reqB"].organic
     /\ GoogleAnswered("reqA", i) /\ GoogleAnswered("reqB", j))
    => LET a == LastOf(wlog["reqA"][i]["google"])
           b == LastOf(wlog["reqB"][j]["google"])
       IN /\ HasCompany(a) = HasCompany(b)
          /\ HitsOf(a) = HitsOf(b)
          /\ GoogleScore(snap["reqA"][i], a) = GoogleScore(snap["reqB"][j], b)

\* ------------------------------------------------------------------ C30
PresenceFields == {"top10", "hasCompany", "competitorsHit", "shopping", "immersive"}

\* C30: a stored engine result with status 'checking' or 'error' has no
\* top10, hasCompany or competitorsHit (nor a shopping or immersive
\* block), so the scoring step reads it as company absent with no
\* competitor, whatever an earlier run had stored there.
C30_NoStalePresence ==
  \A p \in DOMAIN results : \A e \in Engines :
    results[p][e].status \in {"checking", "error"} =>
      /\ DOMAIN results[p][e] \cap PresenceFields = {}
      /\ ~HasCompany(results[p][e])
      /\ HitsOf(results[p][e]) = <<>>

\* a profile whose earlier batch run found the company on both engines
\* (status 'done', no batch run since) and whose single-prompt re-run
\* failed on google and is still waiting for bing
C30_Witness ==
  /\ profile.status = "done" /\ rkind["reqA"] = "none"
  /\ rkind["reqB"] = "single"
  /\ PromptAt(1) \in DOMAIN results
  /\ results[PromptAt(1)]["google"] = ErrorValue(GoogleFailMsg)
  /\ results[PromptAt(1)]["bing"] = CheckingValue

====
